---- MODULE Spec2Model ----
(***************************************************************************)
(* Verification model of dfc (Dockerfile converter): ParseDockerfile,      *)
(* Dockerfile.Convert and Dockerfile.String with the helpers they call.    *)
(*                                                                         *)
(* A Go string is modelled as a sequence of atoms.  An atom is either one  *)
(* punctuation or whitespace character (" ", "\n", ":", "-", "&", ...) or  *)
(* a maximal run of letters and digits ("FROM", "node", "14").  The code   *)
(* only ever inspects punctuation characters, whole words, and the case of *)
(* keywords, so string equality, prefix, suffix, split and index on the    *)
(* atom sequences coincide with the byte-level operations of the source.   *)
(* The empty string is the empty sequence.                                 *)
(***************************************************************************)
EXTENDS Integers, Sequences, FiniteSets, TLC

(***************************************************************************)
(* strings package                                                         *)
(***************************************************************************)
EmptyStr == << >>

IsSpace(a) == a \in {" ", "\t", "\n", "\r"}

Range(s) == {s[i] : i \in 1..Len(s)}

Drop(s, n) == SubSeq(s, n + 1, Len(s))

Take(s, n) == SubSeq(s, 1, n)

\* Number of leading whitespace atoms of s.
LeadingSpaces(s) ==
    CHOOSE n \in 0..Len(s) :
        /\ \A j \in 1..n : IsSpace(s[j])
        /\ (n < Len(s) => ~IsSpace(s[n + 1]))

\* Number of trailing whitespace atoms of s.
TrailingSpaces(s) ==
    CHOOSE n \in 0..Len(s) :
        /\ \A j \in (Len(s) - n + 1)..Len(s) : IsSpace(s[j])
        /\ (n < Len(s) => ~IsSpace(s[Len(s) - n]))

TrimSpace(s) ==
    LET cut(l) == IF l = Len(s) THEN EmptyStr
                  ELSE SubSeq(s, l + 1, Len(s) - TrailingSpaces(s))
    IN  cut(LeadingSpaces(s))

HasPrefix(s, p) == Len(s) >= Len(p) /\ SubSeq(s, 1, Len(p)) = p

HasSuffix(s, p) == Len(s) >= Len(p) /\ SubSeq(s, Len(s) - Len(p) + 1, Len(s)) = p

TrimPrefix(s, p) == IF HasPrefix(s, p) THEN Drop(s, Len(p)) ELSE s

TrimSuffix(s, p) == IF HasSuffix(s, p) THEN Take(s, Len(s) - Len(p)) ELSE s

\* strings.Index, 1-based; 0 when p does not occur in s (Go returns -1).
Index(s, p) ==
    LET first(hits) == IF hits = {} THEN 0 ELSE CHOOSE i \in hits : \A j \in hits : i <= j
    IN  first({i \in 1..(Len(s) - Len(p) + 1) : SubSeq(s, i, i + Len(p) - 1) = p})

Contains(s, p) == Index(s, p) # 0

\* strings.Split(s, sep) for a non-empty separator: always at least one piece.
RECURSIVE Split(_, _)
Split(s, sep) ==
    LET cut(i) == IF i = 0 THEN <<s>>
                  ELSE <<Take(s, i - 1)>> \o Split(Drop(s, i - 1 + Len(sep)), sep)
    IN  cut(Index(s, sep))

\* strings.SplitN(s, sep, 2)
SplitN2(s, sep) ==
    LET cut(i) == IF i = 0 THEN <<s>>
                  ELSE <<Take(s, i - 1), Drop(s, i - 1 + Len(sep))>>
    IN  cut(Index(s, sep))

RECURSIVE Join(_, _)
Join(ss, sep) ==
    IF Len(ss) = 0 THEN EmptyStr
    ELSE IF Len(ss) = 1 THEN ss[1]
    ELSE ss[1] \o sep \o Join(Tail(ss), sep)

RECURSIVE Flatten(_)
Flatten(ss) == IF Len(ss) = 0 THEN EmptyStr ELSE ss[1] \o Flatten(Tail(ss))

\* Case mapping of the words whose case the code looks at.
UpperAtom(a) ==
    CASE a = "from" -> "FROM"
      [] a = "run"  -> "RUN"
      [] a = "arg"  -> "ARG"
      [] a = "user" -> "USER"
      [] a = "as"   -> "AS"
      [] a = "root" -> "ROOT"
      [] a = "Root" -> "ROOT"
      [] a = "build" -> "BUILD"
      [] a = "Build" -> "BUILD"
      [] OTHER      -> a

LowerAtom(a) ==
    CASE a = "FROM" -> "from"
      [] a = "RUN"  -> "run"
      [] a = "ARG"  -> "arg"
      [] a = "USER" -> "user"
      [] a = "AS"   -> "as"
      [] a = "ROOT" -> "root"
      [] a = "Root" -> "root"
      [] a = "BUILD" -> "build"
      [] a = "Build" -> "build"
      [] OTHER      -> a

ToUpper(s) == [i \in 1..Len(s) |-> UpperAtom(s[i])]

ToLower(s) == [i \in 1..Len(s) |-> LowerAtom(s[i])]

(***************************************************************************)
(* Constants of the package                                                *)
(***************************************************************************)
DistroDebian == <<"debian">>
DistroFedora == <<"fedora">>
DistroAlpine == <<"alpine">>

ManagerAptGet   == <<"apt", "-", "get">>
ManagerApk      == <<"apk">>
ManagerYum      == <<"yum">>
ManagerDnf      == <<"dnf">>
ManagerMicrodnf == <<"microdnf">>
ManagerApt      == <<"apt">>

CommandUserAdd  == <<"useradd">>
CommandAddUser  == <<"adduser">>
CommandGroupAdd == <<"groupadd">>
CommandAddGroup == <<"addgroup">>
PackageShadow   == <<"shadow">>
CommandGNUTar     == <<"tar">>
CommandBusyBoxTar == <<"tar">>

SubcommandInstall == <<"install">>
SubcommandAdd     == <<"add">>

DirectiveFrom == <<"FROM">>
DirectiveRun  == <<"RUN">>
DirectiveUser == <<"USER">>
DirectiveArg  == <<"ARG">>
KeywordAs     == <<"AS">>

DefaultRegistryDomain == <<"cgr", ".", "dev">>
DefaultImageTag       == <<"latest", "-", "dev">>
DefaultUser           == <<"root">>
DefaultOrg            == <<"ORG">>
DefaultChainguardBase == <<"chainguard", "-", "base">>

Sp == <<" ">>
NL == <<"\n">>

Managers == {ManagerAptGet, ManagerApt, ManagerYum, ManagerDnf, ManagerMicrodnf, ManagerApk}

\* PackageManagerInfoMap: a missing key yields the zero value (empty strings).
PackageManagerInfoMap(m) ==
    CASE m \in {ManagerAptGet, ManagerApt} ->
            [Distro |-> DistroDebian, InstallKeyword |-> SubcommandInstall]
      [] m \in {ManagerYum, ManagerDnf, ManagerMicrodnf} ->
            [Distro |-> DistroFedora, InstallKeyword |-> SubcommandInstall]
      [] m = ManagerApk ->
            [Distro |-> DistroAlpine, InstallKeyword |-> SubcommandAdd]
      [] OTHER ->
            [Distro |-> EmptyStr, InstallKeyword |-> EmptyStr]

(***************************************************************************)
(* shell.go                                                                *)
(***************************************************************************)
SQuote == "'"
DQuote == "\""
Backslash == "\\"
\* The backquote character (the module language has no literal for it).
Backtick == "BACKQUOTE"

partSeparator == <<" ", Backslash, "\n", " ", " ", " ", " ">>

\* *ShellCommand: set = FALSE is the nil pointer.
NilShell == [set |-> FALSE, Parts |-> << >>]

MkShell(parts) == [set |-> TRUE, Parts |-> parts]

MkPart(extraPre, command, args, delimiter) ==
    [ExtraPre |-> extraPre, Command |-> command, Args |-> args, Delimiter |-> delimiter]

PartString(part) ==
    (IF part.ExtraPre # EmptyStr THEN part.ExtraPre \o Sp ELSE EmptyStr)
    \o part.Command
    \o (IF Len(part.Args) > 0 THEN Sp \o Join(part.Args, Sp) ELSE EmptyStr)
    \o (IF part.Delimiter # EmptyStr THEN Sp \o part.Delimiter ELSE EmptyStr)

\* ShellCommand.String
ShellString(sc) ==
    IF Len(sc.Parts) = 0 THEN <<"true">>
    ELSE Join([i \in 1..Len(sc.Parts) |-> PartString(sc.Parts[i])], partSeparator)

\* The comment scan of removeComments over one line: position of the first
\* "#" outside single and double quotes, 0 when there is none.
RECURSIVE commentPos(_, _, _, _)
commentPos(line, j, inSingleQuote, inDoubleQuote) ==
    IF j > Len(line) THEN 0
    ELSE IF line[j] = SQuote /\ ~inDoubleQuote
         THEN commentPos(line, j + 1, ~inSingleQuote, inDoubleQuote)
    ELSE IF line[j] = DQuote /\ ~inSingleQuote
         THEN commentPos(line, j + 1, inSingleQuote, ~inDoubleQuote)
    ELSE IF line[j] = "#" /\ ~inSingleQuote /\ ~inDoubleQuote THEN j
    ELSE commentPos(line, j + 1, inSingleQuote, inDoubleQuote)

removeCommentsLine(lines, i) ==
    LET finish(processedLine) ==
            IF processedLine = EmptyStr THEN EmptyStr
            ELSE IF HasSuffix(processedLine, <<Backslash>>) /\ i < Len(lines)
                 THEN TrimSpace(Take(processedLine, Len(processedLine) - 1)) \o Sp
            ELSE processedLine \o Sp
        strip(line, cp) == finish(TrimSpace(IF cp > 0 THEN Take(line, cp - 1) ELSE line))
    IN  strip(lines[i], commentPos(lines[i], 1, FALSE, FALSE))

removeComments(input) ==
    LET join(lines) == TrimSpace(Flatten([i \in 1..Len(lines) |-> removeCommentsLine(lines, i)]))
    IN  join(Split(input, NL))

delimiters == << <<"&", "&">>, <<"|", "|">>, <<";">>, <<"|">>, <<"&">> >>

\* First delimiter, in the order of the delimiters list, that cmd carries at i.
delimiterAt(cmd, i) ==
    LET first(hits) == IF hits = {} THEN EmptyStr
                       ELSE delimiters[CHOOSE k \in hits : \A m \in hits : k <= m]
    IN  first({k \in 1..Len(delimiters) :
                  /\ i - 1 + Len(delimiters[k]) <= Len(cmd)
                  /\ SubSeq(cmd, i, i - 1 + Len(delimiters[k])) = delimiters[k]})

NoDelimiter == [delim |-> EmptyStr, pos |-> 0]

\* findNextDelimiter: pos is 1-based, 0 when no delimiter is found.
RECURSIVE findNextDelimiterFrom(_, _, _, _, _, _, _)
findNextDelimiterFrom(cmd, i, inSingleQuote, inDoubleQuote, parenDepth, backtickDepth, subshellDepth) ==
    IF i > Len(cmd) THEN NoDelimiter
    ELSE IF cmd[i] = SQuote /\ ~inDoubleQuote
         THEN findNextDelimiterFrom(cmd, i + 1, ~inSingleQuote, inDoubleQuote, parenDepth, backtickDepth, subshellDepth)
    ELSE IF cmd[i] = DQuote /\ ~inSingleQuote
         THEN findNextDelimiterFrom(cmd, i + 1, inSingleQuote, ~inDoubleQuote, parenDepth, backtickDepth, subshellDepth)
    ELSE IF inSingleQuote \/ inDoubleQuote
         THEN findNextDelimiterFrom(cmd, i + 1, inSingleQuote, inDoubleQuote, parenDepth, backtickDepth, subshellDepth)
    ELSE IF cmd[i] = "("
         THEN findNextDelimiterFrom(cmd, i + 1, inSingleQuote, inDoubleQuote, parenDepth + 1, backtickDepth, subshellDepth)
    ELSE IF cmd[i] = ")" /\ parenDepth > 0
         THEN findNextDelimiterFrom(cmd, i + 1, inSingleQuote, inDoubleQuote, parenDepth - 1, backtickDepth, subshellDepth)
    ELSE IF cmd[i] = Backtick
         THEN findNextDelimiterFrom(cmd, i + 1, inSingleQuote, inDoubleQuote, parenDepth, 1 - backtickDepth, subshellDepth)
    ELSE IF i < Len(cmd) /\ cmd[i] = "$" /\ cmd[i + 1] = "("
         THEN findNextDelimiterFrom(cmd, i + 2, inSingleQuote, inDoubleQuote, parenDepth, backtickDepth, subshellDepth + 1)
    ELSE IF cmd[i] = ")" /\ subshellDepth > 0
         THEN findNextDelimiterFrom(cmd, i + 1, inSingleQuote, inDoubleQuote, parenDepth, backtickDepth, subshellDepth - 1)
    ELSE IF cmd[i] = "#" THEN NoDelimiter
    ELSE IF parenDepth = 0 /\ backtickDepth = 0 /\ subshellDepth = 0 /\ delimiterAt(cmd, i) # EmptyStr
         THEN [delim |-> delimiterAt(cmd, i), pos |-> i]
    ELSE findNextDelimiterFrom(cmd, i + 1, inSingleQuote, inDoubleQuote, parenDepth, backtickDepth, subshellDepth)

\* findNextDelimiter that takes the first delimiter of cmd wherever it stands.
findNextDelimiterAnywhere(cmd) ==
    LET first(hits) ==
            IF hits = {} THEN NoDelimiter
            ELSE [delim |-> delimiterAt(cmd, CHOOSE i \in hits : \A m \in hits : i <= m),
                  pos |-> CHOOSE i \in hits : \A m \in hits : i <= m]
    IN  first({i \in 1..Len(cmd) : delimiterAt(cmd, i) # EmptyStr})

findNextDelimiter(cmd) == findNextDelimiterFrom(cmd, 1, FALSE, FALSE, 0, 0, 0)

\* State of the tokenize loop.
TokInit ==
    [tokens |-> << >>, cur |-> EmptyStr, inSingleQuote |-> FALSE, inDoubleQuote |-> FALSE,
     parenDepth |-> 0, backtickDepth |-> 0, subshellDepth |-> 0, inToken |-> FALSE]

TokKeep(t, c) == [t EXCEPT !.inToken = TRUE, !.cur = t.cur \o <<c>>]

\* One iteration of the loop of tokenize on the character c = cmd[i].
tokenizeStep(cmd, i, t) ==
    LET c == cmd[i]
    IN  IF c = SQuote /\ ~t.inDoubleQuote
            THEN [TokKeep(t, c) EXCEPT !.inSingleQuote = ~t.inSingleQuote]
        ELSE IF c = DQuote /\ ~t.inSingleQuote
            THEN [TokKeep(t, c) EXCEPT !.inDoubleQuote = ~t.inDoubleQuote]
        ELSE IF ~t.inSingleQuote /\ ~t.inDoubleQuote /\ c = "("
            THEN [TokKeep(t, c) EXCEPT !.parenDepth = t.parenDepth + 1]
        ELSE IF ~t.inSingleQuote /\ ~t.inDoubleQuote /\ c = ")"
            THEN [TokKeep(t, c) EXCEPT !.parenDepth = t.parenDepth - 1]
        ELSE IF ~t.inSingleQuote /\ ~t.inDoubleQuote /\ c = Backtick
            THEN [TokKeep(t, c) EXCEPT !.backtickDepth = 1 - t.backtickDepth]
        ELSE IF ~t.inSingleQuote /\ ~t.inDoubleQuote /\ i < Len(cmd) /\ c = "$" /\ cmd[i + 1] = "("
            THEN [TokKeep(t, c) EXCEPT !.subshellDepth = t.subshellDepth + 1]
        ELSE IF c = " " \/ c = "\t"
            THEN IF t.inSingleQuote \/ t.inDoubleQuote \/ t.parenDepth > 0
                    \/ t.backtickDepth > 0 \/ t.subshellDepth > 0
                 THEN TokKeep(t, c)
                 ELSE IF t.inToken
                      THEN [t EXCEPT !.tokens = Append(t.tokens, t.cur), !.cur = EmptyStr, !.inToken = FALSE]
                      ELSE t
        ELSE TokKeep(t, c)

RECURSIVE tokenizeFrom(_, _, _)
tokenizeFrom(cmd, i, t) ==
    IF i > Len(cmd)
    THEN IF t.inToken THEN Append(t.tokens, t.cur) ELSE t.tokens
    ELSE tokenizeFrom(cmd, i + 1, tokenizeStep(cmd, i, t))

tokenize(cmd) == tokenizeFrom(cmd, 1, TokInit)

\* isEnvVarAssignment: the first "=" of the token is not its first character.
isEnvVarAssignment(token) == Index(token, <<"=">>) > 1

\* findCommandIndex, 1-based: Len(tokens) + 1 when every token is an assignment.
findCommandIndex(tokens) ==
    CHOOSE i \in 1..(Len(tokens) + 1) :
        /\ \A j \in 1..(i - 1) : isEnvVarAssignment(tokens[j])
        /\ (i <= Len(tokens) => ~isEnvVarAssignment(tokens[i]))

parseShellPart(cmdPartRaw, delimiter) ==
    LET build(tokens, commandIndex) ==
            IF commandIndex > Len(tokens)
            THEN MkPart(EmptyStr, Join(tokens, Sp), << >>, delimiter)
            ELSE MkPart(IF commandIndex > 1 THEN Join(Take(tokens, commandIndex - 1), Sp)
                        ELSE EmptyStr,
                        tokens[commandIndex], Drop(tokens, commandIndex), delimiter)
        split(cmdPart, tokens) ==
            IF HasPrefix(cmdPart, <<"(">>) /\ HasSuffix(cmdPart, <<")">>)
                THEN MkPart(EmptyStr, cmdPart, << >>, delimiter)
            ELSE IF Len(tokens) = 0
                THEN MkPart(EmptyStr, EmptyStr, << >>, delimiter)
            ELSE build(tokens, findCommandIndex(tokens))
        parse(cmdPart) == split(cmdPart, tokenize(cmdPart))
    IN  parse(TrimSpace(cmdPartRaw))

\* The splitting loop of ParseMultilineShell.
RECURSIVE parseParts(_)
parseParts(remainingCmd) ==
    LET cut(d) ==
            IF d.pos = 0 THEN <<parseShellPart(remainingCmd, EmptyStr)>>
            ELSE <<parseShellPart(TrimSpace(Take(remainingCmd, d.pos - 1)), d.delim)>>
                 \o parseParts(TrimSpace(Drop(remainingCmd, d.pos - 1 + Len(d.delim))))
    IN  IF Len(remainingCmd) = 0 THEN << >> ELSE cut(findNextDelimiter(remainingCmd))

ParseMultilineShell(raw) ==
    LET parse(cleaned) == IF cleaned = EmptyStr THEN NilShell ELSE MkShell(parseParts(cleaned))
    IN  IF TrimSpace(raw) = EmptyStr THEN NilShell
        ELSE parse(TrimSpace(removeComments(raw)))

(***************************************************************************)
(* dfc.go: document model                                                  *)
(***************************************************************************)
\* *FromDetails, *ArgDetails, *RunDetails: set = FALSE is the nil pointer.
NilFrom ==
    [set |-> FALSE, Base |-> EmptyStr, Tag |-> EmptyStr, Digest |-> EmptyStr,
     Alias |-> EmptyStr, Parent |-> 0, BaseDynamic |-> FALSE, TagDynamic |-> FALSE,
     Orig |-> EmptyStr]

NilArg == [set |-> FALSE, Name |-> EmptyStr, DefaultValue |-> EmptyStr, UsedAsBase |-> FALSE]

NilRun ==
    [set |-> FALSE, Distro |-> EmptyStr, Manager |-> EmptyStr, Packages |-> << >>,
     Before |-> NilShell, After |-> NilShell]

\* DockerfileLine
MkLine(raw, extra, stage) ==
    [Raw |-> raw, Converted |-> EmptyStr, Extra |-> extra, Stage |-> stage,
     From |-> NilFrom, Run |-> NilRun, Arg |-> NilArg]

\* Dockerfile.String: what one line contributes to the output.
LineString(lines, i) ==
    LET line == lines[i]
    IN  line.Extra
        \o (IF line.Converted # EmptyStr THEN line.Converted \o NL
            ELSE IF line.Raw # EmptyStr
                 THEN line.Raw \o (IF i < Len(lines) THEN NL ELSE EmptyStr)
            ELSE EmptyStr)

\* Dockerfile.String
String(lines) == Flatten([i \in 1..Len(lines) |-> LineString(lines, i)])

(***************************************************************************)
(* dfc.go: ParseDockerfile                                                 *)
(***************************************************************************)
asKeywordWithSpaces == Sp \o KeywordAs \o Sp

\* The FROM branch of processCurrentInstruction.  stage is the stage counter
\* after its increment; the result carries the updated alias table.
parseFrom(trimmedInstruction, stage, stageAliases) ==
    LET details(origImageRef, alias, aliases, base, tag, digest) ==
            [from |-> [set |-> TRUE, Base |-> base, Tag |-> tag, Digest |-> digest,
                       Alias |-> alias,
                       Parent |-> IF ToLower(base) \in DOMAIN aliases
                                  THEN aliases[ToLower(base)] ELSE 0,
                       BaseDynamic |-> Contains(base, <<"$">>),
                       TagDynamic |-> Contains(tag, <<"$">>),
                       Orig |-> origImageRef],
             aliases |-> aliases]
        tagged(origImageRef, alias, aliases, fromPart, digest, tagParts) ==
            IF Len(tagParts) > 1
            THEN details(origImageRef, alias, aliases, tagParts[1], tagParts[2], digest)
            ELSE details(origImageRef, alias, aliases, fromPart, EmptyStr, digest)
        digested(origImageRef, alias, aliases, fromPart, digest) ==
            tagged(origImageRef, alias, aliases, fromPart, digest, Split(fromPart, <<":">>))
        referenced(origImageRef, alias, aliases, digestParts) ==
            IF Len(digestParts) > 1
            THEN digested(origImageRef, alias, aliases, digestParts[1], digestParts[2])
            ELSE digested(origImageRef, alias, aliases, origImageRef, EmptyStr)
        named(fromPart, alias, aliases) ==
            referenced(fromPart, alias, aliases, Split(fromPart, <<"@">>))
        aliased(fromPart, alias) ==
            named(fromPart, alias, (ToLower(alias) :> stage) @@ stageAliases)
        cut(fromPart, hasAs, asIndex) ==
            IF hasAs
            THEN aliased(TrimSpace(Take(fromPart, asIndex - 1)),
                         TrimSpace(Drop(fromPart, asIndex - 1 + Len(asKeywordWithSpaces))))
            ELSE named(fromPart, EmptyStr, stageAliases)
        split(fromPart, upperFrom) ==
            cut(fromPart, Len(Split(upperFrom, asKeywordWithSpaces)) > 1,
                Index(upperFrom, asKeywordWithSpaces))
        upper(fromPart) == split(fromPart, ToUpper(fromPart))
    IN  upper(TrimSpace(Drop(trimmedInstruction, Len(DirectiveFrom \o Sp))))

\* The ARG branch of processCurrentInstruction.
parseArg(trimmedInstruction) ==
    LET details(argPart, parts) ==
            IF Len(parts) > 1
            THEN [set |-> TRUE, Name |-> TrimSpace(parts[1]),
                  DefaultValue |-> TrimSpace(parts[2]), UsedAsBase |-> FALSE]
            ELSE [set |-> TRUE, Name |-> argPart, DefaultValue |-> EmptyStr,
                  UsedAsBase |-> FALSE]
        split(argPart) == details(argPart, SplitN2(argPart, <<"=">>))
    IN  split(TrimSpace(Drop(trimmedInstruction, Len(DirectiveArg \o Sp))))

\* The RUN branch of processCurrentInstruction.
parseRun(trimmedInstruction) ==
    LET details(shellCmd) ==
            IF shellCmd.set THEN [NilRun EXCEPT !.set = TRUE, !.Before = shellCmd] ELSE NilRun
    IN  details(ParseMultilineShell(
                    TrimSpace(Drop(trimmedInstruction, Len(DirectiveRun \o Sp)))))

\* State of the parsing loop.
ParseInit ==
    [Lines |-> << >>, extraContent |-> EmptyStr, currentInstruction |-> EmptyStr,
     inMultilineInstruction |-> FALSE, currentStage |-> 0, stageAliases |-> << >>]

processCurrentInstruction(st) ==
    LET add(line, stage, aliases) ==
            [st EXCEPT !.Lines = Append(st.Lines, line),
                       !.currentStage = stage,
                       !.stageAliases = aliases,
                       !.currentInstruction = EmptyStr,
                       !.extraContent = EmptyStr]
        build(trimmedInstruction, upperInstruction, stage, pf) ==
            add([MkLine(st.currentInstruction, st.extraContent, stage) EXCEPT
                    !.From = pf.from,
                    !.Arg = IF HasPrefix(upperInstruction, DirectiveArg \o Sp)
                            THEN parseArg(trimmedInstruction) ELSE NilArg,
                    !.Run = IF HasPrefix(upperInstruction, DirectiveRun \o Sp)
                            THEN parseRun(trimmedInstruction) ELSE NilRun],
                stage, pf.aliases)
        classify(trimmedInstruction, upperInstruction, isFrom) ==
            build(trimmedInstruction, upperInstruction,
                  IF isFrom THEN st.currentStage + 1 ELSE st.currentStage,
                  IF isFrom
                  THEN parseFrom(trimmedInstruction, st.currentStage + 1, st.stageAliases)
                  ELSE [from |-> NilFrom, aliases |-> st.stageAliases])
        upper(trimmedInstruction, upperInstruction) ==
            classify(trimmedInstruction, upperInstruction,
                     HasPrefix(upperInstruction, DirectiveFrom \o Sp))
        trim(trimmedInstruction) == upper(trimmedInstruction, ToUpper(trimmedInstruction))
    IN  IF Len(st.currentInstruction) = 0 THEN st
        ELSE trim(TrimSpace(st.currentInstruction))

\* One iteration of the loop over the physical lines.
parseLine(st, line) ==
    LET step(trimmedLine, continues) ==
            IF trimmedLine = EmptyStr \/ HasPrefix(trimmedLine, <<"#">>)
            THEN IF ~st.inMultilineInstruction
                 THEN [st EXCEPT !.extraContent = st.extraContent \o line \o NL]
                 ELSE st
            ELSE IF ~st.inMultilineInstruction
            THEN IF continues
                 THEN [st EXCEPT !.inMultilineInstruction = TRUE,
                                 !.currentInstruction = st.currentInstruction \o line \o NL]
                 ELSE processCurrentInstruction(
                          [st EXCEPT !.currentInstruction = st.currentInstruction \o line])
            ELSE IF ~continues
                 THEN processCurrentInstruction(
                          [st EXCEPT !.currentInstruction = st.currentInstruction \o line,
                                     !.inMultilineInstruction = FALSE])
                 ELSE [st EXCEPT !.currentInstruction = st.currentInstruction \o line \o NL]
        trim(trimmedLine) == step(trimmedLine, HasSuffix(trimmedLine, <<Backslash>>))
    IN  trim(TrimSpace(line))

RECURSIVE parseLines(_, _, _)
parseLines(st, lines, i) ==
    IF i > Len(lines) THEN st ELSE parseLines(parseLine(st, lines[i]), lines, i + 1)

\* ParseDockerfile: the Lines of the returned Dockerfile.
ParseDockerfile(text) ==
    LET flush(st) ==
            IF Len(st.extraContent) > 0
            THEN Append(st.Lines, MkLine(TrimSuffix(st.extraContent, NL), EmptyStr, 0))
            ELSE st.Lines
        last(st) == flush(IF st.inMultilineInstruction THEN processCurrentInstruction(st)
                          ELSE st)
    IN  last(parseLines(ParseInit, Split(text, NL), 1))

(***************************************************************************)
(* dfc.go: image references                                                *)
(***************************************************************************)
\* Go maps: a function whose DOMAIN is the key set; << >> is the empty map.
EmptyMap == << >>

\* m[k] with the zero value "" for a missing key.
Lookup(m, k) == IF k \in DOMAIN m THEN m[k] ELSE EmptyStr

RECURSIVE TrimRightSlash(_)
TrimRightSlash(s) ==
    IF Len(s) > 0 /\ s[Len(s)] = "/" THEN TrimRightSlash(Take(s, Len(s) - 1)) ELSE s

\* filepath.Base
filepathBase(path) ==
    LET last(segs) == segs[Len(segs)]
        base(q) == IF q = EmptyStr THEN <<"/">> ELSE last(Split(q, <<"/">>))
    IN  IF path = EmptyStr THEN <<".">> ELSE base(TrimRightSlash(path))

\* The decimal numerals of the model; none has a sign or a leading zero, so
\* strconv.Atoi accepts exactly these and "%d" prints them back unchanged.
Numerals == {"0", "1", "2", "3", "9", "11", "12", "14", "17", "18", "20", "21", "22"}

\* strconv.Atoi succeeds.
IsInt(s) == Len(s) = 1 /\ s[1] \in Numerals

parseImageReference(imageRef) ==
    LET ref(tagParts) ==
            IF Len(tagParts) > 1 THEN [base |-> tagParts[1], tag |-> tagParts[2]]
            ELSE [base |-> imageRef, tag |-> EmptyStr]
    IN  ref(Split(imageRef, <<":">>))

generateDockerHubVariants(base) ==
    LET dockerIo == <<"docker", ".", "io", "/">>
        registry1 == <<"registry", "-", "1", ".", "docker", ".", "io", "/">>
        indexIo == <<"index", ".", "docker", ".", "io", "/">>
        library == <<"library", "/">>
        variants(parts) ==
            IF Len(parts) = 1
            THEN <<base, dockerIo \o parts[1], dockerIo \o library \o parts[1],
                   registry1 \o library \o parts[1], indexIo \o parts[1],
                   indexIo \o library \o parts[1]>>
            ELSE IF Len(parts) = 2
            THEN <<base, dockerIo \o parts[1] \o <<"/">> \o parts[2],
                   registry1 \o parts[1] \o <<"/">> \o parts[2],
                   indexIo \o parts[1] \o <<"/">> \o parts[2]>>
            ELSE <<base>>
    IN  IF Contains(base, <<"/">>) /\ Contains(base, <<".">>) THEN <<base>>
        ELSE variants(Split(base, <<"/">>))

normalizeImageName(imageRef0) ==
    LET dockerHubDomains == << <<"registry", "-", "1", ".", "docker", ".", "io", "/">>,
                               <<"docker", ".", "io", "/">>,
                               <<"index", ".", "docker", ".", "io", "/">> >>
        strip(imageRef, hits) ==
            IF hits = {} THEN imageRef
            ELSE TrimPrefix(imageRef,
                            dockerHubDomains[CHOOSE k \in hits : \A m \in hits : k <= m])
        normalize(imageRef) ==
            strip(imageRef, {k \in 1..Len(dockerHubDomains) :
                                HasPrefix(imageRef, dockerHubDomains[k])})
    IN  normalize(TrimRightSlash(imageRef0))

\* convertImageTag that keeps the components after major.minor.
convertImageTagNoTruncate(tag0) ==
    LET latest(tag, isSemver) ==
            IF ~isSemver /\ tag # <<"latest">> THEN <<"latest">> ELSE tag
        semver(tag, semverParts) ==
            latest(tag,
                   IF Len(semverParts) = 1 THEN IsInt(semverParts[1])
                   ELSE IsInt(semverParts[1]) /\ IsInt(semverParts[2]))
        split(tag) == semver(tag, Split(tag, <<".">>))
        unprefix(tag) ==
            split(IF Len(tag) > 1 /\ tag[1] = "v" /\ tag[2] \in Numerals THEN Tail(tag)
                  ELSE tag)
        cut(hyphenIndex) ==
            unprefix(IF hyphenIndex # 0 THEN Take(tag0, hyphenIndex - 1) ELSE tag0)
    IN  IF tag0 = EmptyStr THEN DefaultImageTag ELSE cut(Index(tag0, <<"-">>))

\* convertImageTag
convertImageTag(tag0) ==
    LET latest(tag, isSemver) ==
            IF ~isSemver /\ tag # <<"latest">> THEN <<"latest">> ELSE tag
        truncate(tag, semverParts, isSemver) ==
            latest(IF isSemver /\ Len(semverParts) > 2
                   THEN semverParts[1] \o <<".">> \o semverParts[2] ELSE tag,
                   isSemver)
        semver(tag, semverParts) ==
            truncate(tag, semverParts,
                     IF Len(semverParts) = 1 THEN IsInt(semverParts[1])
                     ELSE IsInt(semverParts[1]) /\ IsInt(semverParts[2]))
        split(tag) == semver(tag, Split(tag, <<".">>))
        unprefix(tag) ==
            split(IF Len(tag) > 1 /\ tag[1] = "v" /\ tag[2] \in Numerals THEN Tail(tag)
                  ELSE tag)
        cut(hyphenIndex) ==
            unprefix(IF hyphenIndex # 0 THEN Take(tag0, hyphenIndex - 1) ELSE tag0)
    IN  IF tag0 = EmptyStr THEN DefaultImageTag ELSE cut(Index(tag0, <<"-">>))

\* calculateConvertedTag without the special case for chainguard-base.
calculateConvertedTagNoBase(baseFilename, tag, isDynamicTag, needsDevSuffix) ==
    LET dev == <<"-", "dev">>
        suffixed(convertedTag) ==
            IF needsDevSuffix /\ convertedTag # <<"latest">>
            THEN IF ~HasSuffix(convertedTag, dev) THEN convertedTag \o dev ELSE convertedTag
            ELSE IF needsDevSuffix /\ convertedTag = <<"latest">> THEN DefaultImageTag
            ELSE convertedTag
    IN  IF Contains(tag, <<"$">>)
        THEN IF needsDevSuffix /\ ~HasSuffix(tag, dev) THEN tag \o dev ELSE tag
        ELSE suffixed(convertImageTag(tag))

\* calculateConvertedTag
calculateConvertedTag(baseFilename, tag, isDynamicTag, needsDevSuffix) ==
    LET dev == <<"-", "dev">>
        suffixed(convertedTag) ==
            IF needsDevSuffix /\ convertedTag # <<"latest">>
            THEN IF ~HasSuffix(convertedTag, dev) THEN convertedTag \o dev ELSE convertedTag
            ELSE IF needsDevSuffix /\ convertedTag = <<"latest">> THEN DefaultImageTag
            ELSE convertedTag
    IN  IF baseFilename = DefaultChainguardBase THEN <<"latest">>
        ELSE IF Contains(tag, <<"$">>)
             THEN IF needsDevSuffix /\ ~HasSuffix(tag, dev) THEN tag \o dev ELSE tag
        ELSE suffixed(convertImageTag(tag))

\* buildImageReference
buildImageReference(baseFilename, tag, opts) ==
    LET org == IF opts.Organization = EmptyStr THEN DefaultOrg ELSE opts.Organization
        newBase == IF opts.Registry # EmptyStr
                   THEN opts.Registry \o <<"/">> \o baseFilename
                   ELSE DefaultRegistryDomain \o <<"/">> \o org \o <<"/">> \o baseFilename
    IN  IF tag # EmptyStr THEN newBase \o <<":">> \o tag ELSE newBase

\* The keys of the image table that end in "*".
GlobKeys(images) == {k \in DOMAIN images : HasSuffix(k, <<"*">>)}

\* All orders in which a range over the image table can visit its glob keys
\* (Go randomizes map iteration; keys without "*" are skipped by the loop body).
GlobOrders(images) ==
    LET ks == GlobKeys(images)
        n == Cardinality(ks)
    IN  {o \in [1..n -> ks] : \A i, j \in 1..n : i # j => o[i] # o[j]}

\* The glob loop matching the text in front of the * anywhere in the name.
globMatchAnywhere(images, baseFilename, order) ==
    LET hits == {k \in 1..Len(order) :
                    Contains(baseFilename, TrimSuffix(order[k], <<"*">>))}
    IN  IF hits = {} THEN EmptyStr
        ELSE images[order[CHOOSE k \in hits : \A m \in hits : k <= m]]

\* The glob loop: the value of the first visited pattern whose prefix matches.
globMatch(images, baseFilename, order) ==
    LET hits == {k \in 1..Len(order) :
                    HasPrefix(baseFilename, TrimSuffix(order[k], <<"*">>))}
    IN  IF hits = {} THEN EmptyStr
        ELSE images[order[CHOOSE k \in hits : \A m \in hits : k <= m]]

\* First docker-hub variant of base that is a key of the table, "" if none.
variantMatch(images, base) ==
    LET first(vs, hits) ==
            IF hits = {} THEN EmptyStr
            ELSE images[vs[CHOOSE k \in hits : \A m \in hits : k <= m]]
        match(vs) == first(vs, {k \in 1..Len(vs) : vs[k] \in DOMAIN images})
    IN  match(generateDockerHubVariants(base))

normalizedMatch(images, base) ==
    LET simple(normalizedBase, simpleBase) ==
            IF normalizedBase \in DOMAIN images THEN images[normalizedBase]
            ELSE IF HasPrefix(normalizedBase, <<"library", "/">>) /\ simpleBase \in DOMAIN images
                 THEN images[simpleBase]
            ELSE EmptyStr
        match(normalizedBase) ==
            simple(normalizedBase, TrimPrefix(normalizedBase, <<"library", "/">>))
    IN  match(normalizeImageName(base))

\* The lookup cascade with the basename tried before the full reference.
lookupImageShortFirst(images, base, baseFilename, order) ==
    LET orGlob(m) == IF m = EmptyStr THEN globMatch(images, baseFilename, order) ELSE m
        orNormalized(m) == orGlob(IF m = EmptyStr THEN normalizedMatch(images, base) ELSE m)
    IN  IF baseFilename \in DOMAIN images THEN images[baseFilename]
        ELSE IF base \in DOMAIN images THEN images[base]
        ELSE orNormalized(variantMatch(images, base))

\* The lookup cascade of convertFromLine.
lookupImage(images, base, baseFilename, order) ==
    LET orGlob(m) == IF m = EmptyStr THEN globMatch(images, baseFilename, order) ELSE m
        orNormalized(m) == orGlob(IF m = EmptyStr THEN normalizedMatch(images, base) ELSE m)
    IN  IF base \in DOMAIN images THEN images[base]
        ELSE IF baseFilename \in DOMAIN images THEN images[baseFilename]
        ELSE orNormalized(variantMatch(images, base))

\* Adds " AS alias" to a FROM line.
fromLineText(imageRef, alias) ==
    DirectiveFrom \o Sp \o imageRef
    \o (IF alias # EmptyStr THEN Sp \o KeywordAs \o Sp \o alias ELSE EmptyStr)

\* A FromLineConverter supplied by the caller: "nil" is no hook, "keep" returns
\* the proposed reference, "pin" returns a fixed reference of its own, "picky"
\* returns an error for an image with a tag and the proposed reference
\* otherwise, "fail" returns an error.
HookResult(hook, from, converted, stageHasRun) ==
    CASE hook = "keep" -> [err |-> FALSE, ref |-> converted]
      [] hook = "picky" /\ from.Tag = EmptyStr -> [err |-> FALSE, ref |-> converted]
      [] hook = "pin"  -> [err |-> FALSE, ref |-> <<"example", ".", "com", "/", "img", ":", "1">>]
      [] OTHER         -> [err |-> TRUE, ref |-> EmptyStr]

\* convertFromLine that takes the image of the mapping value and computes the
\* tag from the original one.
convertFromLineOwnTag(from, stageHasRun, opts, order) ==
    LET hooked(chainguardImageRef, custom) ==
            IF opts.FromLineConverter # "nil"
            THEN IF custom.err THEN fromLineText(from.Orig, from.Alias)
                 ELSE fromLineText(custom.ref, from.Alias)
            ELSE fromLineText(chainguardImageRef, from.Alias)
        built(chainguardImageRef) ==
            hooked(chainguardImageRef,
                   HookResult(opts.FromLineConverter, from, chainguardImageRef, stageHasRun))
        target(targetImage) ==
            built(buildImageReference(targetImage,
                      calculateConvertedTag(targetImage, from.Tag, from.TagDynamic,
                                            stageHasRun),
                      opts))
        split(baseFilename, mappedImage, parts) ==
            target(IF mappedImage = EmptyStr THEN baseFilename
                   ELSE IF Len(parts) > 1 THEN parts[1] ELSE mappedImage)
        mapped(baseFilename, mappedImage) ==
            split(baseFilename, mappedImage, Split(mappedImage, <<":">>))
        named(baseFilename) ==
            mapped(baseFilename,
                   lookupImage(opts.ExtraMappings.Images, from.Base, baseFilename, order))
    IN  named(filepathBase(from.Base))

\* convertFromLine that emits its own proposal when the hook returns an error.
convertFromLineHookIgnored(from, stageHasRun, opts, order) ==
    LET hooked(chainguardImageRef, custom) ==
            IF opts.FromLineConverter # "nil"
            THEN IF custom.err THEN fromLineText(chainguardImageRef, from.Alias)
                 ELSE fromLineText(custom.ref, from.Alias)
            ELSE fromLineText(chainguardImageRef, from.Alias)
        built(chainguardImageRef) ==
            hooked(chainguardImageRef,
                   HookResult(opts.FromLineConverter, from, chainguardImageRef, stageHasRun))
        target(targetImage, mappedTag) ==
            built(buildImageReference(targetImage,
                      IF mappedTag = EmptyStr
                      THEN calculateConvertedTag(targetImage, from.Tag, from.TagDynamic,
                                                 stageHasRun)
                      ELSE mappedTag,
                      opts))
        split(baseFilename, mappedImage, parts) ==
            target(IF mappedImage = EmptyStr THEN baseFilename
                   ELSE IF Len(parts) > 1 THEN parts[1] ELSE mappedImage,
                   IF mappedImage # EmptyStr /\ Len(parts) > 1 THEN parts[2] ELSE EmptyStr)
        mapped(baseFilename, mappedImage) ==
            split(baseFilename, mappedImage, Split(mappedImage, <<":">>))
        named(baseFilename) ==
            mapped(baseFilename,
                   lookupImage(opts.ExtraMappings.Images, from.Base, baseFilename, order))
    IN  named(filepathBase(from.Base))

\* convertFromLine; stageHasRun is stagesWithRunCommands[stage].
convertFromLine(from, stageHasRun, opts, order) ==
    LET hooked(chainguardImageRef, custom) ==
            IF opts.FromLineConverter # "nil"
            THEN IF custom.err THEN fromLineText(from.Orig, from.Alias)
                 ELSE fromLineText(custom.ref, from.Alias)
            ELSE fromLineText(chainguardImageRef, from.Alias)
        built(chainguardImageRef) ==
            hooked(chainguardImageRef,
                   HookResult(opts.FromLineConverter, from, chainguardImageRef, stageHasRun))
        target(targetImage, mappedTag) ==
            built(buildImageReference(targetImage,
                      IF mappedTag = EmptyStr
                      THEN calculateConvertedTag(targetImage, from.Tag, from.TagDynamic,
                                                 stageHasRun)
                      ELSE mappedTag,
                      opts))
        split(baseFilename, mappedImage, parts) ==
            target(IF mappedImage = EmptyStr THEN baseFilename
                   ELSE IF Len(parts) > 1 THEN parts[1] ELSE mappedImage,
                   IF mappedImage # EmptyStr /\ Len(parts) > 1 THEN parts[2] ELSE EmptyStr)
        mapped(baseFilename, mappedImage) ==
            split(baseFilename, mappedImage, Split(mappedImage, <<":">>))
        named(baseFilename) ==
            mapped(baseFilename,
                   lookupImage(opts.ExtraMappings.Images, from.Base, baseFilename, order))
    IN  named(filepathBase(from.Base))

\* detectStagesWithRunCommands that also counts the stage a stage with a RUN
\* command is based on.
detectStagesWithRunCommandsInherited(lines) ==
    LET own == {lines[i].Stage : i \in {j \in 1..Len(lines) :
                   HasPrefix(ToUpper(TrimSpace(lines[j].Raw)), DirectiveRun \o Sp)}}
    IN  own \cup {lines[i].From.Parent : i \in {j \in 1..Len(lines) :
                     lines[j].From.set /\ lines[j].Stage \in own}}

\* stagesWithRunCommands of detectStagesWithRunCommands, as a set of stages.
detectStagesWithRunCommands(lines) ==
    {lines[i].Stage : i \in {j \in 1..Len(lines) :
        HasPrefix(ToUpper(TrimSpace(lines[j].Raw)), DirectiveRun \o Sp)}}

\* determineIfArgNeedsDevSuffix
determineIfArgNeedsDevSuffix(argName, lines, stagesWithRunCommands) ==
    LET hits == {i \in 1..Len(lines) :
                    /\ lines[i].From.set
                    /\ lines[i].From.BaseDynamic
                    /\ \/ Contains(lines[i].From.Base, <<"$", "{">> \o argName \o <<"}">>)
                       \/ Contains(lines[i].From.Base, <<"$">> \o argName)}
    IN  IF hits = {} THEN FALSE
        ELSE lines[CHOOSE i \in hits : \A j \in hits : i <= j].Stage \in stagesWithRunCommands

\* convertArgLine: the converted text and the new ArgDetails.
convertArgLine(arg, lines, stagesWithRunCommands, opts, order) ==
    LET images == opts.ExtraMappings.Images
        final(finalImageRef) ==
            [text |-> DirectiveArg \o Sp \o arg.Name \o <<"=">> \o finalImageRef,
             arg  |-> [set |-> TRUE, Name |-> arg.Name, DefaultValue |-> finalImageRef,
                       UsedAsBase |-> TRUE]]
        hooked(chainguardImageRef, custom) ==
            final(IF opts.FromLineConverter # "nil"
                  THEN IF custom.err THEN arg.DefaultValue ELSE custom.ref
                  ELSE chainguardImageRef)
        built(ref, needsDevSuffix, chainguardImageRef) ==
            hooked(chainguardImageRef,
                   HookResult(opts.FromLineConverter,
                              [NilFrom EXCEPT !.set = TRUE, !.Base = ref.base, !.Tag = ref.tag,
                                              !.Orig = arg.DefaultValue],
                              chainguardImageRef, needsDevSuffix))
        target(ref, needsDevSuffix, targetImage, mappedTag) ==
            built(ref, needsDevSuffix,
                  buildImageReference(targetImage,
                      IF mappedTag = EmptyStr
                      THEN calculateConvertedTag(targetImage, ref.tag, FALSE, needsDevSuffix)
                      ELSE mappedTag,
                      opts))
        split(ref, needsDevSuffix, baseFilename, matched, mappedImage, parts) ==
            target(ref, needsDevSuffix,
                   IF ~matched THEN baseFilename
                   ELSE IF Len(parts) > 1 THEN parts[1] ELSE mappedImage,
                   IF matched /\ Len(parts) > 1 THEN parts[2] ELSE EmptyStr)
        mapped(ref, needsDevSuffix, baseFilename, matched, mappedImage) ==
            split(ref, needsDevSuffix, baseFilename, matched, mappedImage,
                  Split(mappedImage, <<":">>))
        named(ref, needsDevSuffix, baseFilename) ==
            mapped(ref, needsDevSuffix, baseFilename,
                   baseFilename \in DOMAIN images
                   \/ \E k \in 1..Len(order) :
                         HasPrefix(baseFilename, TrimSuffix(order[k], <<"*">>)),
                   IF baseFilename \in DOMAIN images THEN images[baseFilename]
                   ELSE globMatch(images, baseFilename, order))
        parsed(ref) ==
            named(ref, determineIfArgNeedsDevSuffix(arg.Name, lines, stagesWithRunCommands),
                  filepathBase(ref.base))
    IN  parsed(parseImageReference(arg.DefaultValue))

\* shouldConvertFromLine without the test for a parent stage.
shouldConvertFromLineNoParent(from) ==
    ~(from.Base = <<"scratch">> \/ from.BaseDynamic)

\* shouldConvertFromLine
shouldConvertFromLine(from) ==
    ~(from.Base = <<"scratch">> \/ from.Parent > 0 \/ from.BaseDynamic)

(***************************************************************************)
(* Busybox command syntax: useradd, groupadd, tar                          *)
(***************************************************************************)
Short(c) == <<"-", c>>

Long1(w) == <<"-", "-", w>>

Long2(w1, w2) == <<"-", "-", w1, "-", w2>>

Long3(w1, w2, w3) == <<"-", "-", w1, "-", w2, "-", w3>>

\* i+1 < len(part.Args) for the 1-based index i.
HasNext(args, i) == i + 1 <= Len(args)

NextIsValue(args, i) == HasNext(args, i) /\ ~HasPrefix(args[i + 1], <<"-">>)

\* Loop state of the user and group converters.
UserLoopInit == [i |-> 1, resultArgs |-> << >>, name |-> EmptyStr, hasName |-> FALSE]

\* An option that takes a value and is renamed to newOpt.
renameWithValue(st, args, newOpt) ==
    IF HasNext(args, st.i)
    THEN [st EXCEPT !.resultArgs = st.resultArgs \o <<newOpt, args[st.i + 1]>>, !.i = st.i + 2]
    ELSE [st EXCEPT !.i = st.i + 1]

skipWithValue(st, args) ==
    IF NextIsValue(args, st.i) THEN [st EXCEPT !.i = st.i + 2] ELSE [st EXCEPT !.i = st.i + 1]

userAddStep(st, args) ==
    LET arg == args[st.i]
    IN  IF ~HasPrefix(arg, <<"-">>) /\ ~st.hasName
            THEN [st EXCEPT !.name = arg, !.hasName = TRUE, !.i = st.i + 1]
        ELSE IF arg \in {Short("m"), Long2("create", "home")}
            THEN [st EXCEPT !.i = st.i + 1]
        ELSE IF arg \in {Short("r"), Long1("system")}
            THEN [st EXCEPT !.resultArgs = Append(st.resultArgs, Long1("system")), !.i = st.i + 1]
        ELSE IF arg \in {Short("M"), Long3("no", "create", "home")}
            THEN [st EXCEPT !.resultArgs = Append(st.resultArgs, Long3("no", "create", "home")),
                            !.i = st.i + 1]
        ELSE IF arg \in {Short("s"), Long1("shell")} THEN renameWithValue(st, args, Long1("shell"))
        ELSE IF arg \in {Short("d"), Long2("home", "dir")} THEN renameWithValue(st, args, Long1("home"))
        ELSE IF arg \in {Short("c"), Long1("comment")} THEN renameWithValue(st, args, Long1("gecos"))
        ELSE IF arg \in {Short("g"), Long1("gid")} THEN renameWithValue(st, args, Long1("ingroup"))
        ELSE IF arg \in {Short("u"), Long1("uid")} THEN renameWithValue(st, args, Long1("uid"))
        ELSE IF arg \in {Short("p"), Long1("password")}
            THEN skipWithValue([st EXCEPT !.resultArgs =
                                   Append(st.resultArgs, Long2("disabled", "password"))], args)
        ELSE IF arg \in {Short("k"), Long1("skel"), Short("N"), Long3("no", "user", "group")}
            THEN skipWithValue(st, args)
        ELSE [st EXCEPT !.resultArgs = Append(st.resultArgs, arg), !.i = st.i + 1]

groupAddStep(st, args) ==
    LET arg == args[st.i]
    IN  IF ~HasPrefix(arg, <<"-">>) /\ ~st.hasName
            THEN [st EXCEPT !.name = arg, !.hasName = TRUE, !.i = st.i + 1]
        ELSE IF arg \in {Short("r"), Long1("system")}
            THEN [st EXCEPT !.resultArgs = Append(st.resultArgs, Long1("system")), !.i = st.i + 1]
        ELSE IF arg \in {Short("g"), Long1("gid")} THEN renameWithValue(st, args, Long1("gid"))
        ELSE IF arg \in {Short("f"), Long1("force"), Short("o"), Long2("non", "unique")}
            THEN [st EXCEPT !.i = st.i + 1]
        ELSE IF arg \in {Short("K"), Long1("key"), Short("p"), Long1("password")}
            THEN skipWithValue(st, args)
        ELSE [st EXCEPT !.resultArgs = Append(st.resultArgs, arg), !.i = st.i + 1]

RECURSIVE userAddLoop(_, _)
userAddLoop(st, args) ==
    IF st.i > Len(args)
    THEN IF st.hasName THEN Append(st.resultArgs, st.name) ELSE st.resultArgs
    ELSE userAddLoop(userAddStep(st, args), args)

RECURSIVE groupAddLoop(_, _)
groupAddLoop(st, args) ==
    IF st.i > Len(args)
    THEN IF st.hasName THEN Append(st.resultArgs, st.name) ELSE st.resultArgs
    ELSE groupAddLoop(groupAddStep(st, args), args)

ConvertUserAddToAddUser(part) ==
    IF part.Command # CommandUserAdd THEN part
    ELSE MkPart(part.ExtraPre, CommandAddUser, userAddLoop(UserLoopInit, part.Args), part.Delimiter)

ConvertGroupAddToAddGroup(part) ==
    IF part.Command # CommandGroupAdd THEN part
    ELSE MkPart(part.ExtraPre, CommandAddGroup, groupAddLoop(UserLoopInit, part.Args), part.Delimiter)

\* Loop state of ConvertGNUTarToBusyboxTar.
TarInit ==
    [i |-> 1, options |-> << >>, files |-> << >>, hasFile |-> FALSE, filename |-> EmptyStr]

\* The loop over the characters of a combined option word such as xzf; the
\* atoms of that word are its characters.
RECURSIVE tarCombined(_, _, _, _)
tarCombined(st, args, word, k) ==
    IF k > Len(word) THEN [st EXCEPT !.i = st.i + 1]
    ELSE IF word[k] = "f"
         THEN tarCombined(IF HasNext(args, st.i)
                          THEN [st EXCEPT !.hasFile = TRUE, !.filename = args[st.i + 1],
                                          !.i = st.i + 1]
                          ELSE [st EXCEPT !.hasFile = TRUE],
                          args, word, k + 1)
    ELSE tarCombined([st EXCEPT !.options = Append(st.options, Short(word[k]))], args, word, k + 1)

tarIgnored ==
    {Long2("same", "owner"), Long2("preserve", "permissions"), Long2("preserve", "order"),
     Long1("preserve"), Long2("same", "permissions"), Long2("numeric", "owner"),
     Long1("overwrite"), Long2("remove", "files"), Long3("ignore", "failed", "read")}

tarStep(st, args) ==
    LET arg == args[st.i]
        next == [st EXCEPT !.i = st.i + 1]
        opt(o) == [st EXCEPT !.options = Append(st.options, o), !.i = st.i + 1]
    IN  IF st.i = 1 /\ ~HasPrefix(arg, <<"-">>) /\ Len(arg) > 0
            THEN tarCombined(st, args, arg, 1)
        ELSE IF HasPrefix(arg, <<"-", "-", "file", "=">>)
            THEN [st EXCEPT !.hasFile = TRUE, !.filename = Drop(arg, 4), !.i = st.i + 1]
        ELSE IF arg \in {Long1("extract"), Short("x")} THEN opt(Short("x"))
        ELSE IF arg \in {Long1("create"), Short("c")} THEN opt(Short("c"))
        ELSE IF arg \in {Long1("verbose"), Short("v")} THEN opt(Short("v"))
        ELSE IF arg \in {Long1("file"), Short("f")}
            THEN IF HasNext(args, st.i)
                 THEN [st EXCEPT !.hasFile = TRUE, !.filename = args[st.i + 1], !.i = st.i + 2]
                 ELSE [st EXCEPT !.hasFile = TRUE, !.i = st.i + 1]
        ELSE IF arg \in {Long1("gzip"), Long1("gunzip"), Short("z")} THEN opt(Short("z"))
        ELSE IF arg \in {Long1("bzip2"), Short("j")} THEN opt(Short("j"))
        ELSE IF arg \in {Long1("directory"), Short("C")}
            THEN IF HasNext(args, st.i)
                 THEN [st EXCEPT !.options = st.options \o <<Short("C"), args[st.i + 1]>>,
                                 !.i = st.i + 2]
                 ELSE next
        ELSE IF arg \in tarIgnored THEN next
        ELSE IF HasPrefix(arg, <<"-", "-">>) THEN next
        ELSE [st EXCEPT !.files = Append(st.files, arg), !.i = st.i + 1]

RECURSIVE tarLoop(_, _)
tarLoop(st, args) ==
    IF st.i > Len(args)
    THEN st.options \o st.files
         \o (IF st.hasFile /\ st.filename # EmptyStr THEN <<Short("f"), st.filename>> ELSE << >>)
    ELSE tarLoop(tarStep(st, args), args)

ConvertGNUTarToBusyboxTar(part) ==
    IF part.Command # CommandGNUTar THEN part
    ELSE MkPart(part.ExtraPre, CommandBusyBoxTar, tarLoop(TarInit, part.Args), part.Delimiter)

(***************************************************************************)
(* dfc.go: RUN lines                                                       *)
(***************************************************************************)
\* The words that occur in package names, in ascending byte order; slices.Sort
\* compares package names atom by atom in this order.
ByteOrder ==
    <<"-", ".", "3", "9", "abc", "curl", "lmnop", "nano", "nginx", "php", "python",
      "shadow", "vim", "xyz">>

AtomRank(a) ==
    IF \E i \in 1..Len(ByteOrder) : ByteOrder[i] = a
    THEN CHOOSE i \in 1..Len(ByteOrder) : ByteOrder[i] = a
    ELSE 0

RECURSIVE StrLess(_, _)
StrLess(a, b) ==
    IF Len(b) = 0 THEN FALSE
    ELSE IF Len(a) = 0 THEN TRUE
    ELSE IF a[1] = b[1] THEN StrLess(Tail(a), Tail(b))
    ELSE AtomRank(a[1]) < AtomRank(b[1])

RECURSIVE Insert(_, _)
Insert(sorted, x) ==
    IF Len(sorted) = 0 THEN <<x>>
    ELSE IF StrLess(x, sorted[1]) THEN <<x>> \o sorted
    ELSE <<sorted[1]>> \o Insert(Tail(sorted), x)

\* slices.Sort
RECURSIVE Sort(_)
Sort(xs) == IF Len(xs) = 0 THEN << >> ELSE Insert(Sort(Tail(xs)), xs[1])

\* slices.Compact left out: the list is returned with its duplicates.
CompactNone(xs) == xs

\* slices.Compact
RECURSIVE Compact(_)
Compact(xs) ==
    IF Len(xs) <= 1 THEN xs
    ELSE IF xs[1] = xs[2] THEN Compact(Tail(xs))
    ELSE <<xs[1]>> \o Compact(Tail(xs))

\* collectPackages that takes flags for package names.
RECURSIVE collectPackagesFlags(_, _, _)
collectPackagesFlags(args, distro, packageMap) ==
    IF Len(args) = 0 THEN [detected |-> << >>, toInstall |-> << >>]
    ELSE LET rest == collectPackagesFlags(Tail(args), distro, packageMap)
             arg == args[1]
             mapped == IF distro \in DOMAIN packageMap /\ arg \in DOMAIN packageMap[distro]
                       THEN packageMap[distro][arg] ELSE <<arg>>
         IN  [detected |-> <<arg>> \o rest.detected, toInstall |-> mapped \o rest.toInstall]

\* The names one install part contributes: every argument after the install
\* keyword that does not start with "-".
RECURSIVE collectPackages(_, _, _)
collectPackages(args, distro, packageMap) ==
    IF Len(args) = 0 THEN [detected |-> << >>, toInstall |-> << >>]
    ELSE LET rest == collectPackages(Tail(args), distro, packageMap)
             arg == args[1]
             mapped == IF distro \in DOMAIN packageMap /\ arg \in DOMAIN packageMap[distro]
                       THEN packageMap[distro][arg] ELSE <<arg>>
         IN  IF HasPrefix(arg, <<"-">>) THEN rest
             ELSE [detected |-> <<arg>> \o rest.detected, toInstall |-> mapped \o rest.toInstall]

\* State of the scan of convertPackageManagerCommands over the shell parts;
\* firstPMInstallIndex is 1-based, 0 for the -1 of the code.
PMInit ==
    [distro |-> EmptyStr, firstPM |-> EmptyStr, firstPMInstallIndex |-> 0,
     packagesDetected |-> << >>, packagesToInstall |-> << >>]

pmScanStep(st, parts, i, packageMap) ==
    LET part == parts[i]
        collect(firstPM, distro, installKeywordIndex, found) ==
            IF installKeywordIndex = 0 THEN [st EXCEPT !.firstPM = firstPM, !.distro = distro]
            ELSE [distro |-> distro, firstPM |-> firstPM,
                  firstPMInstallIndex |-> IF st.firstPMInstallIndex = 0 THEN i
                                          ELSE st.firstPMInstallIndex,
                  packagesDetected |-> st.packagesDetected \o found.detected,
                  packagesToInstall |-> st.packagesToInstall \o found.toInstall]
        install(firstPM, distro, installKeywordIndex) ==
            collect(firstPM, distro, installKeywordIndex,
                    collectPackages(Drop(part.Args, installKeywordIndex), distro, packageMap))
        keyword(firstPM, distro, kw) ==
            install(firstPM, distro,
                    IF kw = {} THEN 0 ELSE CHOOSE j \in kw : \A m \in kw : j <= m)
        manager(firstPM, pmInfo) ==
            keyword(firstPM, IF st.firstPM = EmptyStr THEN pmInfo.Distro ELSE st.distro,
                    {j \in 1..Len(part.Args) : part.Args[j] = pmInfo.InstallKeyword})
        first(firstPM) == manager(firstPM, PackageManagerInfoMap(firstPM))
    IN  IF ~(part.Command = st.firstPM
             \/ (st.firstPM = EmptyStr /\ PackageManagerInfoMap(part.Command).Distro # EmptyStr))
        THEN st
        ELSE first(IF st.firstPM = EmptyStr THEN part.Command ELSE st.firstPM)

RECURSIVE pmScan(_, _, _, _)
pmScan(st, parts, i, packageMap) ==
    IF i > Len(parts) THEN st
    ELSE pmScan(pmScanStep(st, parts, i, packageMap), parts, i + 1, packageMap)

\* nonPMParts that collects the kept parts in reverse order.
RECURSIVE nonPMPartsReversed(_, _, _, _, _)
nonPMPartsReversed(parts, lo, hi, firstPM, clearLast) ==
    IF lo > hi THEN << >>
    ELSE LET part == IF clearLast /\ lo = Len(parts)
                     THEN [parts[lo] EXCEPT !.Delimiter = EmptyStr] ELSE parts[lo]
         IN  nonPMPartsReversed(parts, lo + 1, hi, firstPM, clearLast)
             \o (IF parts[lo].Command # firstPM THEN <<part>> ELSE << >>)

\* The parts among parts[lo..hi] whose command is not the detected manager; the
\* last part of the command loses its delimiter when clearLast is set.
RECURSIVE nonPMParts(_, _, _, _, _)
nonPMParts(parts, lo, hi, firstPM, clearLast) ==
    IF lo > hi THEN << >>
    ELSE LET part == IF clearLast /\ lo = Len(parts)
                     THEN [parts[lo] EXCEPT !.Delimiter = EmptyStr] ELSE parts[lo]
         IN  (IF parts[lo].Command # firstPM THEN <<part>> ELSE << >>)
             \o nonPMParts(parts, lo + 1, hi, firstPM, clearLast)

\* convertPackageManagerCommands
convertPackageManagerCommands(shell, packageMap) ==
    LET parts == shell.Parts
        fix(newParts) == [newParts EXCEPT ![Len(newParts)].Delimiter = EmptyStr]
        rewrite(st, idx, packagesToInstall) ==
            fix(nonPMParts(parts, 1, idx - 1, st.firstPM, FALSE)
                \o <<MkPart(parts[idx].ExtraPre, <<"apk">>,
                            <<SubcommandAdd, Long2("no", "cache")>> \o packagesToInstall,
                            IF idx < Len(parts) THEN parts[idx].Delimiter ELSE EmptyStr)>>
                \o nonPMParts(parts, idx + 1, Len(parts), st.firstPM, TRUE))
        sorted(st, packagesToInstall) ==
            [modified |-> TRUE, distro |-> st.distro, manager |-> st.firstPM,
             packages |-> Compact(Sort(st.packagesDetected)),
             mappedPackages |-> packagesToInstall,
             shell |-> MkShell(rewrite(st, st.firstPMInstallIndex, packagesToInstall))]
        scanned(st) ==
            IF Len(st.packagesToInstall) = 0 \/ st.firstPMInstallIndex = 0
            THEN [modified |-> FALSE, distro |-> st.distro, manager |-> st.firstPM,
                  packages |-> << >>, mappedPackages |-> << >>, shell |-> shell]
            ELSE sorted(st, Compact(Sort(st.packagesToInstall)))
    IN  IF ~shell.set
        THEN [modified |-> FALSE, distro |-> EmptyStr, manager |-> EmptyStr, packages |-> << >>,
              mappedPackages |-> << >>, shell |-> NilShell]
        ELSE scanned(pmScan(PMInit, parts, 1, packageMap))

\* The handler table of convertBusyboxCommands applied to one part.
busyboxPart(part, hasShadow) ==
    LET compare(converted) ==
            IF converted.Command # part.Command \/ converted.Args # part.Args
            THEN [changed |-> TRUE, part |-> converted]
            ELSE [changed |-> FALSE, part |-> part]
    IN  compare(IF ~hasShadow /\ part.Command = CommandUserAdd
                    THEN ConvertUserAddToAddUser(part)
                ELSE IF ~hasShadow /\ part.Command = CommandGroupAdd
                    THEN ConvertGroupAddToAddGroup(part)
                ELSE IF part.Command = CommandGNUTar THEN ConvertGNUTarToBusyboxTar(part)
                ELSE part)

\* slices.Contains(stagePackages, PackageShadow)
hasShadowPackage(stagePackages) ==
    \E i \in 1..Len(stagePackages) : stagePackages[i] = PackageShadow

\* convertBusyboxCommands with handlers that skip the shadow check.
convertBusyboxCommandsNoShadow(shell, stagePackages) ==
    LET collect(res) ==
            IF \E i \in 1..Len(res) : res[i].changed
            THEN [modified |-> TRUE, shell |-> MkShell([i \in 1..Len(res) |-> res[i].part])]
            ELSE [modified |-> FALSE, shell |-> shell]
        handle(hasShadow) ==
            collect([i \in 1..Len(shell.Parts) |-> busyboxPart(shell.Parts[i], hasShadow)])
    IN  IF ~shell.set \/ Len(shell.Parts) = 0 THEN [modified |-> FALSE, shell |-> shell]
        ELSE handle(FALSE)

\* convertBusyboxCommands
convertBusyboxCommands(shell, stagePackages) ==
    LET collect(res) ==
            IF \E i \in 1..Len(res) : res[i].changed
            THEN [modified |-> TRUE, shell |-> MkShell([i \in 1..Len(res) |-> res[i].part])]
            ELSE [modified |-> FALSE, shell |-> shell]
        handle(hasShadow) ==
            collect([i \in 1..Len(shell.Parts) |-> busyboxPart(shell.Parts[i], hasShadow)])
    IN  IF ~shell.set \/ Len(shell.Parts) = 0 THEN [modified |-> FALSE, shell |-> shell]
        ELSE handle(hasShadowPackage(stagePackages))

\* stagePackages[stage], nil for a stage without entry.
StagePkgs(stagePackages, stage) ==
    IF stage \in DOMAIN stagePackages THEN stagePackages[stage] ELSE << >>

\* processRunLine: the new line and the updated stagePackages.
processRunLine(newLine, line, stagePackages, packageMap) ==
    LET runPrefix == DirectiveRun \o Sp
        text(shell, runIndex) ==
            IF runIndex # 0
            THEN SubSeq(line.Raw, runIndex, runIndex + Len(runPrefix) - 1) \o ShellString(shell)
            ELSE DirectiveRun \o Sp \o ShellString(shell)
        store(pm, pkgs, bb, modifiedAnything) ==
            [line |-> [newLine EXCEPT
                          !.Run = [set |-> TRUE, Distro |-> pm.distro, Manager |-> pm.manager,
                                   Packages |-> pm.packages, Before |-> line.Run.Before,
                                   After |-> IF modifiedAnything THEN bb.shell ELSE NilShell],
                          !.Converted =
                              IF modifiedAnything
                              THEN text(bb.shell, Index(ToUpper(line.Raw), runPrefix))
                              ELSE newLine.Converted],
             stagePackages |-> pkgs]
        busybox(pm, pkgs, bb) == store(pm, pkgs, bb, pm.modified \/ bb.modified)
        tracked(pm, pkgs) ==
            busybox(pm, pkgs, convertBusyboxCommands(pm.shell, StagePkgs(pkgs, line.Stage)))
        managed(pm) ==
            tracked(pm, IF Len(pm.mappedPackages) > 0
                        THEN (line.Stage :> (StagePkgs(stagePackages, line.Stage)
                                             \o pm.mappedPackages)) @@ stagePackages
                        ELSE stagePackages)
    IN  managed(convertPackageManagerCommands(line.Run.Before, packageMap))

\* A USER directive that names root, as addUserRootDirectives recognizes it.
isUserRoot(text) ==
    /\ HasPrefix(ToUpper(TrimSpace(text)), DirectiveUser \o Sp)
    /\ Contains(ToLower(text), DefaultUser)

\* addUserRootDirectives that looks for an existing directive in the rewritten
\* text only.
addUserRootDirectivesAgain(lines) ==
    LET idxs == 1..Len(lines)
        stagesWithConvertedRuns ==
            {lines[i].Stage : i \in {j \in idxs : lines[j].Run.set /\ lines[j].Converted # EmptyStr}}
        stagesWithUserRoot ==
            {lines[i].Stage : i \in {j \in idxs : isUserRoot(lines[j].Converted)}}
        \* an earlier FROM line of the same stage that received the directive
        added(i) == \E j \in 1..(i - 1) :
                        /\ lines[j].From.set
                        /\ lines[j].Stage = lines[i].Stage
                        /\ lines[j].Converted # EmptyStr
    IN  [i \in idxs |->
            IF /\ lines[i].From.set
               /\ lines[i].Stage \in stagesWithConvertedRuns
               /\ lines[i].Converted # EmptyStr
               /\ lines[i].Stage \notin stagesWithUserRoot
               /\ ~added(i)
            THEN [lines[i] EXCEPT !.Converted = lines[i].Converted \o NL \o DirectiveUser
                                                \o Sp \o DefaultUser]
            ELSE lines[i]]

\* addUserRootDirectives
addUserRootDirectives(lines) ==
    LET idxs == 1..Len(lines)
        stagesWithConvertedRuns ==
            {lines[i].Stage : i \in {j \in idxs : lines[j].Run.set /\ lines[j].Converted # EmptyStr}}
        stagesWithUserRoot ==
            {lines[i].Stage : i \in {j \in idxs : isUserRoot(lines[j].Raw)
                                                  \/ isUserRoot(lines[j].Converted)}}
        \* an earlier FROM line of the same stage that received the directive
        added(i) == \E j \in 1..(i - 1) :
                        /\ lines[j].From.set
                        /\ lines[j].Stage = lines[i].Stage
                        /\ lines[j].Converted # EmptyStr
    IN  [i \in idxs |->
            IF /\ lines[i].From.set
               /\ lines[i].Stage \in stagesWithConvertedRuns
               /\ lines[i].Converted # EmptyStr
               /\ lines[i].Stage \notin stagesWithUserRoot
               /\ ~added(i)
            THEN [lines[i] EXCEPT !.Converted = lines[i].Converted \o NL \o DirectiveUser
                                                \o Sp \o DefaultUser]
            ELSE lines[i]]

(***************************************************************************)
(* dfc.go: Dockerfile.Convert                                              *)
(***************************************************************************)
\* MappingsConfig
EmptyMappings == [Images |-> EmptyMap, Packages |-> EmptyMap]

\* Overlay of two maps; the entries of overlay win.
Overlay(base, overlay) ==
    [k \in (DOMAIN base) \cup (DOMAIN overlay) |->
        IF k \in DOMAIN overlay THEN overlay[k] ELSE base[k]]

\* MergeMappings
MergeMappings(base, overlay) ==
    [Images |-> Overlay(base.Images, overlay.Images),
     Packages |->
        [d \in (DOMAIN base.Packages) \cup (DOMAIN overlay.Packages) |->
            Overlay(IF d \in DOMAIN base.Packages THEN base.Packages[d] ELSE EmptyMap,
                    IF d \in DOMAIN overlay.Packages THEN overlay.Packages[d] ELSE EmptyMap)]]

\* The mapping table Convert works with; defaults is what
\* defaultGetDefaultMappings loaded.
effectiveMappings(o, defaults) ==
    IF ~o.NoBuiltIn
    THEN IF Cardinality(DOMAIN o.ExtraMappings.Images) > 0
            \/ Cardinality(DOMAIN o.ExtraMappings.Packages) > 0
         THEN MergeMappings(defaults, o.ExtraMappings)
         ELSE defaults
    ELSE o.ExtraMappings

\* The name a FROM line contributes to argsUsedAsBase.
argNameOf(baseName) ==
    LET argName == Tail(baseName)
    IN  IF HasPrefix(argName, <<"{">>) /\ HasSuffix(argName, <<"}">>)
        THEN SubSeq(argName, 2, Len(argName) - 1) ELSE argName

\* identifyArgsUsedAsBaseImages: the lines it was given, with the UsedAsBase
\* flag it sets on them.
identifyArgsUsedAsBaseImages(lines) ==
    LET idxs == 1..Len(lines)
        argsUsedAsBase ==
            {argNameOf(lines[i].From.Base) :
                i \in {j \in idxs : /\ lines[j].From.set
                                    /\ lines[j].From.BaseDynamic
                                    /\ HasPrefix(lines[j].From.Base, <<"$">>)}}
        \* argNameToLine keeps the last ARG line of each name
        isNamed(i) == /\ lines[i].Arg.set
                      /\ lines[i].Arg.Name # EmptyStr
                      /\ \A j \in (i + 1)..Len(lines) :
                            ~(lines[j].Arg.set /\ lines[j].Arg.Name = lines[i].Arg.Name)
    IN  [i \in idxs |->
            IF isNamed(i) /\ lines[i].Arg.Name \in argsUsedAsBase
            THEN [lines[i] EXCEPT !.Arg.UsedAsBase = TRUE]
            ELSE lines[i]]

\* The line copy of Convert without the leading trivia.
convertLineNoExtra(line, lines, stagesWithRunCommands, stagePackages, o, order) ==
    LET run(newLine) ==
            IF line.Run.set /\ line.Run.Before.set
            THEN processRunLine(newLine, line, stagePackages, o.ExtraMappings.Packages)
            ELSE [line |-> newLine, stagePackages |-> stagePackages]
        withArg(newLine, ca) == [newLine EXCEPT !.Converted = ca.text, !.Arg = ca.arg]
        arg(newLine) ==
            run(IF line.Arg.set /\ line.Arg.UsedAsBase /\ line.Arg.DefaultValue # EmptyStr
                THEN withArg(newLine,
                             convertArgLine(line.Arg, lines, stagesWithRunCommands, o, order))
                ELSE newLine)
        from(newLine) ==
            arg(IF line.From.set
                THEN [newLine EXCEPT
                         !.From = line.From,
                         !.Converted =
                             IF shouldConvertFromLine(line.From)
                             THEN convertFromLine(line.From,
                                      line.Stage \in stagesWithRunCommands, o, order)
                             ELSE EmptyStr]
                ELSE newLine)
    IN  from(MkLine(line.Raw, EmptyStr, line.Stage))

\* The body of the conversion loop for line i; orders[i] is the order in which
\* the glob loops of this line visit the image table.
convertLine(line, lines, stagesWithRunCommands, stagePackages, o, order) ==
    LET run(newLine) ==
            IF line.Run.set /\ line.Run.Before.set
            THEN processRunLine(newLine, line, stagePackages, o.ExtraMappings.Packages)
            ELSE [line |-> newLine, stagePackages |-> stagePackages]
        withArg(newLine, ca) == [newLine EXCEPT !.Converted = ca.text, !.Arg = ca.arg]
        arg(newLine) ==
            run(IF line.Arg.set /\ line.Arg.UsedAsBase /\ line.Arg.DefaultValue # EmptyStr
                THEN withArg(newLine,
                             convertArgLine(line.Arg, lines, stagesWithRunCommands, o, order))
                ELSE newLine)
        from(newLine) ==
            arg(IF line.From.set
                THEN [newLine EXCEPT
                         !.From = line.From,
                         !.Converted =
                             IF shouldConvertFromLine(line.From)
                             THEN convertFromLine(line.From,
                                      line.Stage \in stagesWithRunCommands, o, order)
                             ELSE EmptyStr]
                ELSE newLine)
    IN  from(MkLine(line.Raw, line.Extra, line.Stage))

RECURSIVE convertLines(_, _, _, _, _, _, _)
convertLines(lines, i, acc, stagesWithRunCommands, stagePackages, o, orders) ==
    LET next(r) ==
            convertLines(lines, i + 1, Append(acc, r.line), stagesWithRunCommands,
                         r.stagePackages, o, orders)
    IN  IF i > Len(lines) THEN acc
        ELSE next(convertLine(lines[i], lines, stagesWithRunCommands, stagePackages, o,
                              orders[i]))

\* Dockerfile.Convert: input is the receiver as Convert leaves it, output the
\* Lines of the Dockerfile it returns.
Convert(lines, o, defaults, orders) ==
    LET convert(marked) ==
            [input |-> marked,
             output |-> addUserRootDirectives(
                            convertLines(marked, 1, << >>, detectStagesWithRunCommands(lines),
                                         EmptyMap,
                                         [o EXCEPT !.ExtraMappings =
                                                       effectiveMappings(o, defaults)],
                                         orders))]
    IN  convert(identifyArgsUsedAsBaseImages(lines))

(***************************************************************************)
(* The pipeline: parse, print, convert, print, and the same again on the   *)
(* converted text.                                                         *)
(***************************************************************************)
VARIABLES
    content,     \* the Dockerfile text handed to ParseDockerfile
    opts,        \* the Options handed to Convert
    defaults,    \* what defaultGetDefaultMappings returns: [err, mappings]
    doc,         \* the parsed Dockerfile (its Lines), the receiver of Convert
    printed,     \* doc.String() before any conversion
    converted,   \* the Dockerfile returned by Convert (its Lines)
    affected,    \* the stages that have received a USER root directive so far
    result,      \* converted.String()
    previous,    \* result of the round before this one
    round,       \* 1 for the first conversion, 2 for the conversion of its output
    pc           \* position in the pipeline

vars == <<content, opts, defaults, doc, printed, converted, affected, result, previous,
          round, pc>>

\* Longest input, in physical lines.
MaxLines == 3

\* Number of times the pipeline is run on its own output, the first run included.
MaxRounds == 2

\* All texts of 1..n lines taken from the catalogue cat.
Texts(cat, n) ==
    {Join(ls, NL) : ls \in UNION {[1..k -> Range(cat)] : k \in 1..n}}

\* Physical lines of multi-stage Dockerfiles.
StageCatalogue ==
    << <<"FROM", " ", "node", ":", "14">>,
       <<"FROM", " ", "node", " ", "AS", " ", "build">>,
       <<"FROM", " ", "node", ":", "14", " ", "AS", " ", "build">>,
       <<"FROM", " ", "build">>,
       <<"FROM", " ", "scratch">>,
       <<"FROM", " ", "$", "BASE">>,
       <<"ARG", " ", "BASE", "=", "debian", ":", "12">>,
       <<"RUN", " ", "apt", "-", "get", " ", "update", " ", "&", "&", " ",
         "apt", "-", "get", " ", "install", " ", "-", "y", " ", "nano">>,
       <<"USER", " ", "non", "root">>,
       <<"USER", " ", "root">>,
       <<"#", " ", "note">> >>

\* Physical lines of Dockerfiles that install packages and manage users.
RunCatalogue ==
    << <<"FROM", " ", "node", ":", "14">>,
       <<"RUN", " ", "apt", "-", "get", " ", "install", " ", "-", "y", " ", "nginx", " ",
         "&", "&", " ", "yum", " ", "install", " ", "php">>,
       <<"RUN", " ", "useradd", " ", "-", "m", " ", "app">>,
       <<"RUN", " ", "groupadd", " ", "-", "r", " ", "app">>,
       <<"RUN", " ", "apt", "-", "get", " ", "install", " ", "-", "y", " ", "shadow", " ",
         "&", "&", " ", "useradd", " ", "app">>,
       <<"run", " ", "apt", "-", "get", " ", "install", " ", "-", "y", " ", "shadow">> >>

\* Physical lines of Dockerfiles with continuations, comments and blank lines.
ParseCatalogue ==
    << <<"FROM", " ", "node">>,
       <<"COPY", " ", "a", " ", "\\">>,
       <<" ", " ", "b">>,
       <<"#", " ", "note">>,
       << >> >>

BaseOptions ==
    [Organization |-> EmptyStr, Registry |-> EmptyStr, ExtraMappings |-> EmptyMappings,
     NoBuiltIn |-> TRUE, FromLineConverter |-> "nil"]

\* A sample of the built-in mapping document.
BuiltinMappings ==
    [Images |-> (<<"debian">> :> (DefaultChainguardBase \o <<":", "latest">>)),
     Packages |-> (DistroDebian :> (<<"nano">> :> << <<"nano">> >>))]

\* Options{NoBuiltIn: true}
CfgEmpty ==
    [opts |-> BaseOptions, defaults |-> [err |-> FALSE, mappings |-> EmptyMappings]]

\* The options of TestParseConvert on top of the built-in mappings.
CfgBuiltin ==
    [opts |-> [BaseOptions EXCEPT
                 !.NoBuiltIn = FALSE,
                 !.ExtraMappings =
                     [Images |-> EmptyMap,
                      Packages |-> (DistroDebian :>
                                      (<<"abc">> :> << <<"xyz">>, <<"lmnop">> >>))]],
     defaults |-> [err |-> FALSE, mappings |-> BuiltinMappings]]

\* The built-in mappings fail to load.
CfgLoadError ==
    [opts |-> [BaseOptions EXCEPT !.NoBuiltIn = FALSE],
     defaults |-> [err |-> TRUE, mappings |-> EmptyMappings]]

Configs == {CfgEmpty, CfgBuiltin, CfgLoadError}

InitWith(texts, cfgs) ==
    /\ content \in texts
    /\ \E c \in cfgs : opts = c.opts /\ defaults = c.defaults
    /\ doc = << >>
    /\ printed = EmptyStr
    /\ converted = << >>
    /\ affected = {}
    /\ result = EmptyStr
    /\ previous = EmptyStr
    /\ round = 1
    /\ pc = "start"

Init == InitWith(Texts(StageCatalogue, MaxLines), Configs)

InitRun == InitWith(Texts(RunCatalogue, MaxLines), Configs)

InitParse == InitWith(Texts(ParseCatalogue, MaxLines), Configs)

\* The text a USER root directive adds to a FROM line.
UserRootSuffix == NL \o DirectiveUser \o Sp \o DefaultUser

\* The stages whose FROM line carries the directive addUserRootDirectives adds.
AddedStages(lines) ==
    {lines[i].Stage : i \in {j \in 1..Len(lines) :
        lines[j].From.set /\ HasSuffix(lines[j].Converted, UserRootSuffix)}}

\* ParseDockerfile(ctx, content)
Parse ==
    /\ pc = "start"
    /\ doc' = ParseDockerfile(content)
    /\ pc' = "parsed"
    /\ UNCHANGED <<content, opts, defaults, printed, converted, affected, result, previous,
                   round>>

\* dockerfile.String() on the parsed, unconverted document
StringParsed ==
    /\ pc = "parsed"
    /\ printed' = String(doc)
    /\ pc' = "printed"
    /\ UNCHANGED <<content, opts, defaults, doc, converted, affected, result, previous,
                   round>>

\* A Convert that drops the error of the run-command hook.
RunHookErrorDropped(lines, o) == FALSE

\* The run-command hook of the options returns an error for a RUN of lines:
\* "fail" is a hook that returns an error for every RUN it is given, "keep"
\* one that returns the proposed text, no field is no hook.
RunHookError(lines, o) ==
    /\ "RunLineConverter" \in DOMAIN o
    /\ o.RunLineConverter = "fail"
    /\ \E i \in 1..Len(lines) : lines[i].Run.set

\* dockerfile.Convert(ctx, opts) returning a Dockerfile
ConvertOk ==
    /\ pc = "printed"
    /\ opts.NoBuiltIn \/ ~defaults.err
    /\ ~RunHookError(doc, opts)
    /\ \E orders \in [1..Len(doc) ->
                        GlobOrders(effectiveMappings(opts, defaults.mappings).Images)] :
          LET returns(r) ==
                  /\ doc' = r.input
                  /\ converted' = r.output
                  /\ affected' = affected \cup AddedStages(r.output)
          IN  returns(Convert(doc, opts, defaults.mappings, orders))
    /\ pc' = "converted"
    /\ UNCHANGED <<content, opts, defaults, printed, result, previous, round>>

\* dockerfile.Convert(ctx, opts) returning an error: "loading default
\* mappings: ..." before any line is looked at ("failed"), the error of the
\* run-command hook otherwise ("hookfailed").
ConvertError ==
    /\ pc = "printed"
    /\ IF ~opts.NoBuiltIn /\ defaults.err THEN pc' = "failed"
       ELSE RunHookError(doc, opts) /\ pc' = "hookfailed"
    /\ UNCHANGED <<content, opts, defaults, doc, printed, converted, affected, result,
                   previous, round>>

\* converted.String()
Serialize ==
    /\ pc = "converted"
    /\ result' = String(converted)
    /\ pc' = "done"
    /\ UNCHANGED <<content, opts, defaults, doc, printed, converted, affected, previous,
                   round>>

\* The converted text becomes the input of the next round
\* (TestDoubleConversionUserRoot).
Again ==
    /\ pc = "done"
    /\ round < MaxRounds
    /\ content' = result
    /\ previous' = result
    /\ round' = round + 1
    /\ pc' = "start"
    /\ UNCHANGED <<opts, defaults, doc, printed, converted, affected, result>>

Next == Parse \/ StringParsed \/ ConvertOk \/ ConvertError \/ Serialize \/ Again

Spec == Init /\ [][Next]_vars

SpecRun == InitRun /\ [][Next]_vars

SpecParse == InitParse /\ [][Next]_vars

\* Physical lines of Dockerfiles whose RUN commands use quotes, parentheses,
\* backticks, subshells and trailing control operators.
ShellCatalogue ==
    << <<"FROM", " ", "node">>,
       <<"RUN", " ", "echo", " ", "\"", "a", " ", "&", "&", " ", "b", "\"", " ", "&", "&", " ",
         "echo", " ", "'", "c", " ", ";", " ", "d", "'">>,
       <<"RUN", " ", "(", "cd", " ", "a", " ", "&", "&", " ", "ls", ")", " ", "|", " ", "cat">>,
       <<"RUN", " ", "echo", " ", "$", "(", "ls", " ", "|", " ", "wc", ")", " ", "a", " ", "b",
         " ", ";", " ", "echo", " ", "BACKQUOTE", "ls", " ", "|", "|", " ", "x", "BACKQUOTE">>,
       <<"RUN", " ", "useradd", " ", "-", "m", " ", "app", " ", ";">>,
       <<"RUN", " ", "apt", "-", "get", " ", "install", " ", "-", "y", " ", "nano", " ",
         "&", "&", " ", "echo", " ", "hi", " ", "&">> >>

\* Physical lines of Dockerfiles whose RUN commands mix package installation
\* with other commands.
PackageCatalogue ==
    << <<"FROM", " ", "node">>,
       <<"RUN", " ", "echo", " ", "hi", " ", ";", " ", "apt", "-", "get", " ", "update", " ",
         "&", "&", " ", "apt", "-", "get", " ", "install", " ", "-", "y", " ", "nano", " ",
         "curl", " ", "abc", " ", "nano", " ", "|", "|", " ", "echo", " ", "bye">>,
       <<"RUN", " ", "apt", "-", "get", " ", "install", " ", "vim", " ", "&", "&", " ",
         "tar", " ", "xzf", " ", "a", " ", "&", "&", " ", "echo", " ", "hi">>,
       <<"RUN", " ", "apt", "-", "get", " ", "update", " ", "&", "&", " ", "echo", " ", "hi">>,
       <<"RUN", " ", "yum", " ", "install", " ", "-", "y">>,
       <<"RUN", " ", "apt", "-", "get", " ", "clean", " ", "&", "&", " ",
         "useradd", " ", "-", "m", " ", "app">>,
       <<"RUN", " ", "apt", "-", "get", " ", "install", " ", "-", "y", " ", "nano", " ",
         "&", "&", " ", "apt", "-", "get", " ", "clean", " ", "|", "|", " ",
         "echo", " ", "bye">> >>

\* Physical lines of Dockerfiles with tagged, aliased and mapped base images.
ImageCatalogue ==
    << <<"FROM", " ", "node", " ", "AS", " ", "node">>,
       <<"FROM", " ", "node", ":", "14", ".", "17", ".", "3">>,
       <<"FROM", " ", "node", ":", "v", "2", ".", "1">>,
       <<"FROM", " ", "node", ":", "alpine">>,
       <<"FROM", " ", "node", ":", "14", "-", "alpine">>,
       <<"FROM", " ", "golang", ":", "1", ".", "21", ".", "x">>,
       <<"FROM", " ", "python", ":", "3">>,
       <<"RUN", " ", "apt", "-", "get", " ", "install", " ", "-", "y", " ", "nano">> >>

\* Physical lines of Dockerfiles whose image names match patterns of the
\* image table; py, th and on spell python.
GlobCatalogue ==
    << <<"FROM", " ", "py", "th", "on", ":", "3">>,
       <<"FROM", " ", "py", "py">>,
       <<"FROM", " ", "node">>,
       <<"RUN", " ", "apt", "-", "get", " ", "install", " ", "-", "y", " ", "nano">> >>

\* Options{NoBuiltIn: true} with a mapping document whose image table has a
\* value with a tag.
CfgTagged ==
    [opts |-> [BaseOptions EXCEPT
                 !.ExtraMappings =
                     [Images |-> (<<"golang">> :> <<"go", ":", "stable">>),
                      Packages |-> EmptyMap]],
     defaults |-> [err |-> FALSE, mappings |-> EmptyMappings]]

\* Options{NoBuiltIn: true} with a mapping document whose image table has
\* two patterns, py* and pyth*, that match the same names.
CfgGlobs ==
    [opts |-> [BaseOptions EXCEPT
                 !.ExtraMappings =
                     [Images |-> (<<"py", "*">> :> <<"python">>)
                                 @@ (<<"py", "th", "*">> :> <<"python", "-", "fips">>),
                      Packages |-> EmptyMap]],
     defaults |-> [err |-> FALSE, mappings |-> EmptyMappings]]

\* Physical lines of Dockerfiles whose images the image table turns into
\* chainguard-base, directly or through a build argument.
BaseCatalogue ==
    << <<"FROM", " ", "debian", ":", "12">>,
       <<"FROM", " ", "ubuntu", ":", "22">>,
       <<"FROM", " ", "chainguard", "-", "base", ":", "12">>,
       <<"ARG", " ", "BASE", "=", "debian", ":", "12">>,
       <<"ARG", " ", "BASE", "=", "ubuntu", ":", "22">>,
       <<"FROM", " ", "$", "BASE">>,
       <<"RUN", " ", "apt", "-", "get", " ", "install", " ", "-", "y", " ", "nano">> >>

\* Physical lines of Dockerfiles whose image references match keys of the
\* image table in several ways.
LookupCatalogue ==
    << <<"FROM", " ", "docker", ".", "io", "/", "library", "/", "node">>,
       <<"FROM", " ", "org", "/", "app">>,
       <<"FROM", " ", "nodejs", "-", "app">>,
       <<"FROM", " ", "docker", ".", "io", "/", "library", "/", "nodejs", "-", "sql">>,
       <<"FROM", " ", "nodejs">>,
       <<"FROM", " ", "nodejs", "20", "-", "debian", "12">>,
       <<"FROM", " ", "my", "-", "nodejs">> >>

\* Options{NoBuiltIn: true} with a mapping document whose image table names
\* chainguard-base with and without a tag and has keys of every kind the
\* lookup of convertFromLine tries.
CfgBase ==
    [opts |-> [BaseOptions EXCEPT
                 !.ExtraMappings =
                     [Images |->
                         (<<"debian">> :> DefaultChainguardBase)
                         @@ (<<"ubuntu">> :> (DefaultChainguardBase \o <<":", "edge">>))
                         @@ (<<"docker", ".", "io", "/", "library", "/", "node">> :> <<"full">>)
                         @@ (<<"node">> :> <<"short">>)
                         @@ (<<"app">> :> <<"short">>)
                         @@ (<<"docker", ".", "io", "/", "org", "/", "app">> :> <<"variant">>)
                         @@ (<<"docker", ".", "io", "/", "nodejs", "-", "app">> :> <<"variant">>)
                         @@ (<<"library", "/", "nodejs", "-", "sql">> :> <<"normalized">>)
                         @@ (<<"nodejs", "*">> :> <<"pattern">>),
                      Packages |-> EmptyMap]],
     defaults |-> [err |-> FALSE, mappings |-> EmptyMappings]]

InitShell == InitWith(Texts(ShellCatalogue, MaxLines), Configs)

InitPackages == InitWith(Texts(PackageCatalogue, MaxLines), Configs)

InitImages == InitWith(Texts(ImageCatalogue, MaxLines), {CfgEmpty, CfgTagged, CfgLoadError})

InitGlobs == InitWith(Texts(GlobCatalogue, MaxLines), {CfgGlobs, CfgLoadError})

\* Physical lines of Dockerfiles converted with custom hooks.
HookCatalogue ==
    << <<"FROM", " ", "node", ":", "14">>,
       <<"FROM", " ", "python", " ", "AS", " ", "build">>,
       <<"ARG", " ", "BASE", "=", "debian", ":", "12">>,
       <<"FROM", " ", "$", "BASE">>,
       <<"RUN", " ", "apt", "-", "get", " ", "install", " ", "-", "y", " ", "nano">> >>

\* Options{NoBuiltIn: true, FromLineConverter: fromHook} and, unless runHook
\* is "nil", RunLineConverter: runHook.
CfgHook(fromHook, runHook) ==
    [opts |-> IF runHook = "nil"
              THEN [BaseOptions EXCEPT !.FromLineConverter = fromHook]
              ELSE [BaseOptions EXCEPT !.FromLineConverter = fromHook]
                   @@ [RunLineConverter |-> runHook],
     defaults |-> [err |-> FALSE, mappings |-> EmptyMappings]]

\* Physical lines of Dockerfiles whose RUN commands have an env prefix, runs
\* of blanks, a comment, operators without blanks around them and blanks inside
\* quotes, parentheses and after a subshell.
RoundCatalogue ==
    << <<"RUN", " ", "A", "=", "1", " ", "echo", " ", " ", "\"", "a", " ", " ", "b", "\"", " ",
         " ", "c", " ", "#", " ", "note">>,
       <<"RUN", " ", "echo", " ", "hi", "&", "&", "ls", " ", " ", ";", "make", " ", "|", "|",
         " ", " ", "true">>,
       <<"RUN", " ", "(", "cd", " ", " ", "a", ")", " ", " ", "|", " ", "cat">>,
       <<"RUN", " ", "echo", " ", "$", "(", "ls", ")", " ", " ", "a">>,
       <<"FROM", " ", "node">> >>

InitRound == InitWith(Texts(RoundCatalogue, MaxLines), {CfgEmpty, CfgLoadError})

InitHooks ==
    InitWith(Texts(HookCatalogue, MaxLines),
             {CfgHook("fail", "nil"), CfgHook("picky", "nil"), CfgHook("nil", "fail"),
              CfgHook("keep", "keep"), CfgLoadError})

InitBase == InitWith(Texts(BaseCatalogue, MaxLines), {CfgEmpty, CfgBase, CfgLoadError})

InitLookup == InitWith(Texts(LookupCatalogue, MaxLines), {CfgEmpty, CfgBase, CfgLoadError})

SpecShell == InitShell /\ [][Next]_vars

SpecPackages == InitPackages /\ [][Next]_vars

SpecImages == InitImages /\ [][Next]_vars

SpecGlobs == InitGlobs /\ [][Next]_vars

SpecRound == InitRound /\ [][Next]_vars

SpecHooks == InitHooks /\ [][Next]_vars

SpecBase == InitBase /\ [][Next]_vars

SpecLookup == InitLookup /\ [][Next]_vars

(***************************************************************************)
(* Properties of the pipeline                                              *)
(***************************************************************************)
Converted == pc \in {"converted", "done"}

Lines(d) == 1..Len(d)

\* The build stages of a document: the stages opened by a FROM instruction.
Stages(d) == {d[i].Stage : i \in {j \in Lines(d) : d[j].From.set}}

\* C1: running the whole pipeline on its own output changes nothing: the text
\* of a later round equals the text of the round before it.
Idempotent == (pc = "done" /\ round > 1) => result = previous

\* C2: parsing a text and serializing the parsed document without converting
\* it yields the text byte for byte.
RoundTrip == pc = "printed" => printed = content

\* Stage s contains a RUN instruction that Convert rewrote.
HasRewrittenRun(d, s) ==
    \E i \in Lines(d) : d[i].Stage = s /\ d[i].Run.set /\ d[i].Converted # EmptyStr

\* Stage s already contains a USER root directive, in original or rewritten
\* text, as the second pass detects it.
HadUserRoot(d, s) ==
    \E i \in Lines(d) :
        /\ d[i].Stage = s
        /\ \/ isUserRoot(d[i].Raw)
           \/ isUserRoot(d[i].Converted) /\ ~d[i].From.set

\* C3: after Convert every build stage with a rewritten RUN instruction and
\* without a USER root directive of its own has USER root placed right after
\* the stage's FROM instruction.
UserRootAfterFrom ==
    Converted =>
        \A s \in Stages(converted) :
            (HasRewrittenRun(converted, s) /\ ~HadUserRoot(converted, s))
                => s \in AddedStages(converted)

\* How many FROM lines of stage s carry an added USER root directive.
AddedCount(d, s) ==
    Cardinality({i \in Lines(d) : /\ d[i].Stage = s
                                  /\ d[i].From.set
                                  /\ HasSuffix(d[i].Converted, UserRootSuffix)})

\* How many USER directives naming root stage s has in the emitted text.
UserRootCount(d, s) ==
    Cardinality({i \in Lines(d) :
        /\ d[i].Stage = s
        /\ IF d[i].Converted # EmptyStr
           THEN HasSuffix(d[i].Converted, UserRootSuffix)
           ELSE isUserRoot(d[i].Raw)})

\* C4: Convert adds no USER root directive to a stage that already contains
\* one, adds at most one to a stage, and every stage that has received one has
\* exactly one after the first conversion and after every re-conversion.
UserRootOnce ==
    Converted =>
        \A s \in Stages(converted) :
            /\ AddedCount(converted, s) <= 1
            /\ HadUserRoot(converted, s) => AddedCount(converted, s) = 0
            /\ s \in affected => UserRootCount(converted, s) = 1

\* A re-conversion has run on a text whose stage received the directive.
UserRootOnceWitness == pc = "done" /\ round > 1 /\ affected # {}

\* C5: Convert leaves the document it is given as it was: every field of
\* every instruction, the used-as-base flag of ARG instructions included.
InputUnchanged == [][(pc = "printed" /\ pc' = "converted") => doc' = doc]_vars

\* The instruction carries none of the payloads Convert looks at.
Plain(line) == ~line.From.set /\ ~line.Arg.set /\ ~line.Run.set

\* C6: Convert returns as many instructions as it was given, in the same
\* order, each with the raw text, leading trivia and stage index it had; only
\* FROM, ARG and RUN instructions receive rewritten text and every other
\* instruction is emitted as in the input.
FrameKept ==
    [][(pc = "printed" /\ pc' = "converted") =>
          /\ Len(converted') = Len(doc)
          /\ \A i \in Lines(doc) :
                /\ converted'[i].Raw = doc[i].Raw
                /\ converted'[i].Extra = doc[i].Extra
                /\ converted'[i].Stage = doc[i].Stage
                /\ converted'[i].Converted # EmptyStr => ~Plain(doc[i])
                /\ Plain(doc[i]) => LineString(converted', i) = LineString(doc, i)]_vars

\* A document with a rewritten instruction and, in a stage of its own, an
\* instruction with leading trivia that is passed through.
FrameKeptWitness ==
    /\ pc = "done"
    /\ \E i, j \in Lines(converted) :
          /\ converted[i].Converted # EmptyStr
          /\ Plain(converted[j])
          /\ converted[j].Extra # EmptyStr
          /\ converted[j].Stage > 0

\* The shell parts invoke two different known package managers.
MixesManagers(shell) ==
    \E p, q \in Range(shell.Parts) :
        /\ p.Command \in Managers
        /\ q.Command \in Managers
        /\ p.Command # q.Command

\* C7: a RUN instruction whose shell parts invoke two different known package
\* managers is not converted: it has no rewritten text.
MixedManagersKept ==
    Converted =>
        \A i \in Lines(converted) :
            (converted[i].Run.set /\ MixesManagers(converted[i].Run.Before))
                => converted[i].Converted = EmptyStr

\* The tag of the image reference a rewritten FROM line emits.
EmittedTag(text) ==
    LET first == Split(text, NL)[1]
        ref == Split(first, Sp)[2]
        parts == Split(ref, <<":">>)
    IN  IF Len(parts) > 1 THEN parts[2] ELSE EmptyStr

\* A rewritten FROM whose tag is static: the tag holds no variable, the target
\* image is not chainguard-base and the matched mapping value has no tag.
StaticRewrite(line) ==
    LET images == effectiveMappings(opts, defaults.mappings).Images
        baseFilename == filepathBase(line.From.Base)
        mapped == lookupImage(images, line.From.Base, baseFilename, << >>)
        target == IF mapped = EmptyStr THEN baseFilename ELSE mapped
    IN  /\ line.From.set
        /\ line.Converted # EmptyStr
        /\ ~Contains(line.From.Tag, <<"$">>)
        /\ ~Contains(mapped, <<":">>)
        /\ target # DefaultChainguardBase

\* C8: the tag of a rewritten FROM with a static tag ends with -dev exactly
\* when the FROM's stage contains a RUN directive; a FROM without a tag becomes
\* latest without a RUN directive in its stage and latest-dev with one.
DevSuffixIffRun ==
    Converted =>
        \A i \in Lines(converted) :
            StaticRewrite(converted[i]) =>
                LET tag == EmittedTag(converted[i].Converted)
                    hasRun == converted[i].Stage \in detectStagesWithRunCommands(converted)
                IN  /\ HasSuffix(tag, <<"-", "dev">>) <=> hasRun
                    /\ converted[i].From.Tag = EmptyStr =>
                          tag = IF hasRun THEN <<"latest", "-", "dev">> ELSE <<"latest">>

\* How many parts of the shell command invoke cmd.
CountCmd(shell, cmd) ==
    Cardinality({k \in 1..Len(shell.Parts) : shell.Parts[k].Command = cmd})

\* The packages Convert detects and maps for the RUN instruction include shadow.
InstallsShadow(line) ==
    /\ line.Run.set
    /\ hasShadowPackage(
          convertPackageManagerCommands(
              line.Run.Before,
              effectiveMappings(opts, defaults.mappings).Packages).mappedPackages)

\* The instruction invokes useradd or groupadd.
AddsUser(line) ==
    /\ line.Run.set
    /\ CountCmd(line.Run.Before, CommandUserAdd) + CountCmd(line.Run.Before, CommandGroupAdd) > 0

\* No useradd or groupadd of the instruction was rewritten.
UserAddKept(line) ==
    (line.Run.set /\ line.Run.After.set) =>
        /\ CountCmd(line.Run.After, CommandUserAdd) = CountCmd(line.Run.Before, CommandUserAdd)
        /\ CountCmd(line.Run.After, CommandGroupAdd) = CountCmd(line.Run.Before, CommandGroupAdd)

Unconvertible(from) ==
    /\ from.set
    /\ \/ from.Base = <<"scratch">>
       \/ from.Parent > 0
       \/ Contains(from.Base, <<"$">>)

\* C10: Convert does not rewrite a FROM instruction whose base is scratch, a
\* parent-stage reference or a name with an unresolved variable; the
\* instruction is emitted with its raw text.
UnconvertibleFromKept ==
    [][(pc = "printed" /\ pc' = "converted") =>
          \A i \in Lines(doc) :
              Unconvertible(doc[i].From) =>
                  /\ converted'[i].Converted = EmptyStr
                  /\ LineString(converted', i) = LineString(doc, i)]_vars

\* A document with a rewritten FROM and a FROM that refers to a parent stage,
\* names scratch or names a variable.
UnconvertibleFromKeptWitness ==
    /\ pc = "done"
    /\ \E i, j \in Lines(converted) :
          /\ converted[i].From.set /\ converted[i].Converted # EmptyStr
          /\ converted[j].From.Parent > 0
    /\ \E i \in Lines(converted) : converted[i].From.Base = <<"scratch">>

(***************************************************************************)
(* Stage references                                                        *)
(***************************************************************************)
\* The FROM lines of d before line i that declare the alias the base of line
\* i names (compared without case).
DeclaresBefore(d, i) ==
    {j \in 1..(i - 1) :
        /\ d[j].From.set
        /\ d[j].From.Alias # EmptyStr
        /\ ToLower(d[j].From.Alias) = ToLower(d[i].From.Base)}

\* C11: a parsed FROM instruction has a non-zero parent index only if its
\* base name equals an alias declared by an earlier FROM instruction, and the
\* recorded parent index is the index of a strictly earlier stage.
ParentEarlier ==
    \A i \in Lines(doc) :
        (doc[i].From.set /\ doc[i].From.Parent # 0)
            => /\ DeclaresBefore(doc, i) # {}
               /\ doc[i].From.Parent < doc[i].Stage

(***************************************************************************)
(* Shell commands                                                          *)
(***************************************************************************)
\* Exactly the last part of a shell command has an empty trailing operator.
OnlyLastOpen(shell) ==
    \A k \in 1..Len(shell.Parts) :
        (shell.Parts[k].Delimiter = EmptyStr) <=> (k = Len(shell.Parts))

\* C12: in every shell command the tokenizer produced for a RUN instruction
\* and in every rewritten one, exactly the last part has an empty trailing
\* operator and every other part has a non-empty one.
LastPartOnlyOpen ==
    /\ \A i \in Lines(doc) : doc[i].Run.set => OnlyLastOpen(doc[i].Run.Before)
    /\ \A i \in Lines(converted) :
          (converted[i].Run.set /\ converted[i].Run.After.set)
              => OnlyLastOpen(converted[i].Run.After)

\* The command text of a single-line RUN instruction.
CommandText(line) == TrimSpace(Drop(TrimSpace(line.Raw), Len(DirectiveRun \o Sp)))

\* The text of a part without its trailing operator.
PartBody(part) == PartString([part EXCEPT !.Delimiter = EmptyStr])

Operators == {"&", "|", ";"}

\* A left-to-right scan of s that follows single quotes, double quotes,
\* backticks and the nesting of parentheses and $( ) subshells; ops counts the
\* control operators met while all of them are closed, closed tells whether
\* all of them are closed at the end.
RECURSIVE Scan(_, _, _, _, _, _, _)
Scan(s, i, sq, dq, depth, bt, ops) ==
    IF i > Len(s) THEN [closed |-> ~sq /\ ~dq /\ depth = 0 /\ ~bt, ops |-> ops]
    ELSE IF s[i] = SQuote /\ ~dq THEN Scan(s, i + 1, ~sq, dq, depth, bt, ops)
    ELSE IF s[i] = DQuote /\ ~sq THEN Scan(s, i + 1, sq, ~dq, depth, bt, ops)
    ELSE IF sq \/ dq THEN Scan(s, i + 1, sq, dq, depth, bt, ops)
    ELSE IF s[i] = "(" THEN Scan(s, i + 1, sq, dq, depth + 1, bt, ops)
    ELSE IF s[i] = ")" /\ depth > 0 THEN Scan(s, i + 1, sq, dq, depth - 1, bt, ops)
    ELSE IF s[i] = Backtick THEN Scan(s, i + 1, sq, dq, depth, ~bt, ops)
    ELSE IF depth = 0 /\ ~bt /\ s[i] \in Operators
         THEN IF i < Len(s) /\ s[i] \in {"&", "|"} /\ s[i + 1] = s[i]
              THEN Scan(s, i + 2, sq, dq, depth, bt, ops + 1)
              ELSE Scan(s, i + 1, sq, dq, depth, bt, ops + 1)
    ELSE Scan(s, i + 1, sq, dq, depth, bt, ops)

Closed(s) == Scan(s, 1, FALSE, FALSE, 0, FALSE, 0).closed

OpenOperators(s) == Scan(s, 1, FALSE, FALSE, 0, FALSE, 0).ops

\* C13: the tokenizer splits a command only at control operators that lie
\* outside single quotes, double quotes, parentheses, backticks and $( )
\* subshells: a command whose constructs are all closed has one boundary per
\* such operator, and every part is a text whose constructs are all closed.
SplitsOutsideOnly ==
    \A i \in Lines(doc) :
        (doc[i].Run.set /\ Closed(CommandText(doc[i])))
            => /\ \A k \in 1..Len(doc[i].Run.Before.Parts) :
                     Closed(PartBody(doc[i].Run.Before.Parts[k]))
               /\ Cardinality({k \in 1..Len(doc[i].Run.Before.Parts) :
                                  doc[i].Run.Before.Parts[k].Delimiter # EmptyStr})
                      = OpenOperators(CommandText(doc[i]))

\* A command was split into several parts of which one holds a control
\* operator inside a quote, a parenthesis, a backtick or a subshell.
SplitsOutsideOnlyWitness ==
    \E i \in Lines(doc) :
        /\ doc[i].Run.set
        /\ Closed(CommandText(doc[i]))
        /\ Len(doc[i].Run.Before.Parts) > 1
        /\ \E k \in 1..Len(doc[i].Run.Before.Parts) :
              \E p \in 1..Len(PartBody(doc[i].Run.Before.Parts[k])) :
                  PartBody(doc[i].Run.Before.Parts[k])[p] \in Operators

\* s holds whitespace at a place where every quote, parenthesis, backtick
\* and subshell opened before it is closed again.
HasOpenSpace(s) ==
    \E p \in 1..Len(s) : s[p] \in {" ", "\t"} /\ Closed(Take(s, p - 1))

\* C14: within one shell part tokens are split at every run of whitespace
\* outside quotes, parentheses, backticks and $( ) subshells: no command and
\* no argument holds whitespace that follows only closed constructs.
TokensSplitAtOpenSpace ==
    \A i \in Lines(doc) :
        doc[i].Run.set
            => \A k \in 1..Len(doc[i].Run.Before.Parts) :
                  /\ ~HasOpenSpace(doc[i].Run.Before.Parts[k].Command)
                  /\ \A a \in 1..Len(doc[i].Run.Before.Parts[k].Args) :
                        ~HasOpenSpace(doc[i].Run.Before.Parts[k].Args[a])

(***************************************************************************)
(* Package-manager translation                                             *)
(***************************************************************************)
\* The parts of a command that neither invoke the manager mgr nor are the
\* emitted apk part.
OthersOf(parts, mgr) ==
    LET other(part) == part.Command # mgr /\ part.Command # <<"apk">>
    IN  SelectSeq(parts, other)

\* The RUN lines of the converted document whose command was rewritten.
RewrittenRuns == {i \in Lines(converted) : converted[i].Run.set /\ converted[i].Run.After.set}

\* Part k of the kept parts is the final part of the rewritten command.
IsFinal(run, k) ==
    /\ k = Len(OthersOf(run.After.Parts, run.Manager))
    /\ run.After.Parts[Len(run.After.Parts)].Command # run.Manager
    /\ run.After.Parts[Len(run.After.Parts)].Command # <<"apk">>

SyntaxCommands == {CommandUserAdd, CommandGroupAdd, CommandGNUTar}

\* Part a of the rewritten command is part b of the original one: env prefix
\* and trailing operator are kept (the operator is dropped when clear is
\* set), command and arguments too unless syntax translation applies to b.
SamePart(b, a, clear) ==
    /\ a.ExtraPre = b.ExtraPre
    /\ a.Delimiter = (IF clear THEN EmptyStr ELSE b.Delimiter)
    /\ b.Command \notin SyntaxCommands => (a.Command = b.Command /\ a.Args = b.Args)

Ascending(xs) == \A k \in 1..(Len(xs) - 1) : StrLess(xs[k], xs[k + 1])

\* The package lists of the apk add parts of a rewritten command.
ApkLists(shell) ==
    {Drop(shell.Parts[k].Args, 2) :
        k \in {j \in 1..Len(shell.Parts) :
                  /\ shell.Parts[j].Command = <<"apk">>
                  /\ Len(shell.Parts[j].Args) >= 2
                  /\ shell.Parts[j].Args[1] = SubcommandAdd}}

\* C16: for any converted RUN instruction the package list of the emitted
\* apk add command and the detected-package list recorded on the instruction
\* are each sorted ascending and free of duplicates.
PackagesSorted ==
    \A i \in RewrittenRuns :
        /\ Ascending(converted[i].Run.Packages)
        /\ Len(converted[i].Run.Packages) > 0
               => /\ ApkLists(converted[i].Run.After) # {}
                  /\ \A l \in ApkLists(converted[i].Run.After) : Ascending(l) /\ Len(l) > 0

\* A command that names a package twice and names packages out of order was
\* rewritten.
PackagesSortedWitness ==
    \E i \in RewrittenRuns :
        /\ Len(converted[i].Run.Packages) >= 3
        /\ \E k \in 1..Len(converted[i].Run.Before.Parts) :
              \E a, b \in 1..Len(converted[i].Run.Before.Parts[k].Args) :
                  /\ a < b
                  /\ converted[i].Run.Before.Parts[k].Args[a]
                         = converted[i].Run.Before.Parts[k].Args[b]
                  /\ \E c \in (a + 1)..(b - 1) :
                        StrLess(converted[i].Run.Before.Parts[k].Args[c],
                                converted[i].Run.Before.Parts[k].Args[a])

\* The command of the first part of parts that names a package manager,
\* EmptyStr when there is none.
DetectedManager(parts) ==
    LET hits == {k \in 1..Len(parts) : parts[k].Command \in Managers}
    IN  IF hits = {} THEN EmptyStr
        ELSE parts[CHOOSE k \in hits : \A m \in hits : k <= m].Command

\* The parts that use the detected manager and carry its install keyword.
InstallParts(parts) ==
    {k \in 1..Len(parts) :
        /\ parts[k].Command = DetectedManager(parts)
        /\ \E a \in 1..Len(parts[k].Args) :
              parts[k].Args[a] = PackageManagerInfoMap(parts[k].Command).InstallKeyword}

\* The arguments of part that follow its install keyword and are no flags.
NamesOf(part) ==
    {a \in 1..Len(part.Args) :
        /\ ~HasPrefix(part.Args[a], <<"-">>)
        /\ \E kw \in 1..(a - 1) :
              part.Args[kw] = PackageManagerInfoMap(part.Command).InstallKeyword}

\* No part that uses the detected manager has an install keyword, or the
\* install parts name no package.
NothingToInstall(parts) ==
    \/ InstallParts(parts) = {}
    \/ \A k \in InstallParts(parts) : NamesOf(parts[k]) = {}

VisitOrders ==
    [1..Len(doc) -> GlobOrders(effectiveMappings(opts, defaults.mappings).Images)]

\* C18: Convert is a function of the document and the options: whatever a
\* call returns, every other call on the same document with the same options
\* returns the same.
ConvertIsFunction ==
    [][(pc = "printed" /\ pc' = "converted")
          => \A orders \in VisitOrders :
                Convert(doc, opts, defaults.mappings, orders).output = converted']_vars

\* The tag without a trailing -dev.
Undev(tag) ==
    IF HasSuffix(tag, <<"-", "dev">>) THEN Take(tag, Len(tag) - 2) ELSE tag

Numeric(s) == Len(s) = 1 /\ s[1] \in Numerals

\* The tag without a leading v that a digit follows.
Unprefixed(tag) ==
    IF Len(tag) > 1 /\ tag[1] = "v" /\ tag[2] \in Numerals THEN Tail(tag) ELSE tag

\* The tag C19 states for a static non-empty tag.
StatedTag(tag) ==
    LET parts == Split(Unprefixed(tag), <<".">>)
    IN  IF \A k \in 1..Len(parts) : Numeric(parts[k])
        THEN IF Len(parts) = 1 THEN Unprefixed(tag) ELSE parts[1] \o <<".">> \o parts[2]
        ELSE <<"latest">>

\* The rewritten FROM lines with a static tag that is not empty.
TaggedRewrites ==
    {i \in Lines(converted) :
        StaticRewrite(converted[i]) /\ converted[i].From.Tag # EmptyStr}

Unsuffixed(tag) ==
    IF Index(tag, <<"-">>) # 0 THEN Take(tag, Index(tag, <<"-">>) - 1) ELSE tag

\* The tag C19 states once the text from the first hyphen on is dropped and
\* only major and minor have to be numeric.
TruncatedTag(tag) ==
    LET parts == Split(Unprefixed(Unsuffixed(tag)), <<".">>)
    IN  IF Len(parts) = 1 /\ Numeric(parts[1]) THEN Unprefixed(Unsuffixed(tag))
        ELSE IF Len(parts) >= 2 /\ Numeric(parts[1]) /\ Numeric(parts[2])
             THEN parts[1] \o <<".">> \o parts[2]
        ELSE <<"latest">>

MappedValue(line) ==
    lookupImage(effectiveMappings(opts, defaults.mappings).Images, line.From.Base,
                filepathBase(line.From.Base), << >>)

\* The rewritten FROM lines whose mapping value carries a tag.
MappedTagRewrites ==
    {i \in Lines(converted) :
        /\ converted[i].From.set
        /\ converted[i].Converted # EmptyStr
        /\ Len(Split(MappedValue(converted[i]), <<":">>)) > 1
        /\ Split(MappedValue(converted[i]), <<":">>)[2] # EmptyStr}

\* C20: without a custom FROM converter, a FROM whose matched mapping value
\* contains a :tag is rewritten with exactly that tag, whatever its original
\* tag was and whether or not its stage has RUN directives.
MappedTagVerbatim ==
    (Converted /\ opts.FromLineConverter = "nil") =>
        \A i \in MappedTagRewrites :
            EmittedTag(converted[i].Converted) = Split(MappedValue(converted[i]), <<":">>)[2]

\* Convert rewrote a FROM with a tag of its own through a mapping value with
\* another tag, in a stage with a RUN directive.
MappedTagVerbatimWitness ==
    /\ Converted
    /\ \E i \in MappedTagRewrites :
          /\ converted[i].From.Tag # EmptyStr
          /\ converted[i].From.Tag # Split(MappedValue(converted[i]), <<":">>)[2]
          /\ converted[i].Stage \in detectStagesWithRunCommands(converted)

(***************************************************************************)
(* chainguard-base and the image table                                     *)
(***************************************************************************)
\* The image table Convert works with.
Images == effectiveMappings(opts, defaults.mappings).Images

\* The image reference a rewritten FROM or ARG line emits.
EmittedRef(line) ==
    IF line.From.set THEN Split(Split(line.Converted, NL)[1], Sp)[2]
    ELSE SplitN2(Split(Split(line.Converted, NL)[1], Sp)[2], <<"=">>)[2]

\* The image name of a reference: the last path segment without the tag.
NameOf(ref) == filepathBase(Split(ref, <<":">>)[1])

\* The tag of a reference, EmptyStr when it has none.
TagOf(ref) == IF Len(Split(ref, <<":">>)) > 1 THEN Split(ref, <<":">>)[2] ELSE EmptyStr

\* The rewritten FROM and ARG lines of the converted document.
RewrittenImages ==
    {i \in Lines(converted) :
        (converted[i].From.set \/ converted[i].Arg.set) /\ converted[i].Converted # EmptyStr}

\* C21 as stated: whenever the target image name of a rewritten FROM or ARG
\* is chainguard-base, the emitted tag is latest, regardless of the original
\* tag and of RUN directives in the stage.
ChainguardBaseLatest ==
    Converted =>
        \A i \in RewrittenImages :
            NameOf(EmittedRef(converted[i])) = DefaultChainguardBase
                => TagOf(EmittedRef(converted[i])) = <<"latest">>

\* The value of the image table for the image of input line i: the image of a
\* FROM is looked up as convertFromLine does, the default value of an ARG by
\* its basename and by pattern as convertArgLine does.
MatchedValue(i) ==
    IF doc[i].From.set
    THEN lookupImage(Images, doc[i].From.Base, filepathBase(doc[i].From.Base),
                     CHOOSE o \in GlobOrders(Images) : TRUE)
    ELSE IF filepathBase(parseImageReference(doc[i].Arg.DefaultValue).base) \in DOMAIN Images
    THEN Images[filepathBase(parseImageReference(doc[i].Arg.DefaultValue).base)]
    ELSE globMatch(Images, filepathBase(parseImageReference(doc[i].Arg.DefaultValue).base),
                   CHOOSE o \in GlobOrders(Images) : TRUE)

\* C21, amended: whenever the target image name of a rewritten FROM or ARG
\* is chainguard-base and the matched mapping value carries no tag of its
\* own, the emitted tag is latest and never carries -dev, regardless of the
\* original tag and of RUN directives in the stage.
ChainguardBaseLatestUnlessMapped ==
    Converted =>
        \A i \in RewrittenImages :
            (/\ NameOf(EmittedRef(converted[i])) = DefaultChainguardBase
             /\ TagOf(MatchedValue(i)) = EmptyStr)
                => TagOf(EmittedRef(converted[i])) = <<"latest">>

\* Convert rewrote the default value of an ARG with a version tag to
\* chainguard-base, and the stage that uses the ARG has a RUN directive.
ChainguardBaseLatestUnlessMappedWitness ==
    /\ Converted
    /\ \E j \in RewrittenImages :
          /\ converted[j].Arg.set
          /\ NameOf(EmittedRef(converted[j])) = DefaultChainguardBase
          /\ TagOf(MatchedValue(j)) = EmptyStr
          /\ TagOf(doc[j].Arg.DefaultValue) # EmptyStr
          /\ determineIfArgNeedsDevSuffix(doc[j].Arg.Name, doc,
                                          detectStagesWithRunCommands(doc))

\* The values of the docker-hub variant keys that match base.
VariantKeys(base) ==
    {k \in 1..Len(generateDockerHubVariants(base)) :
        generateDockerHubVariants(base)[k] \in DOMAIN Images}

\* The key of the normalized form of base, EmptyStr when the table has none.
NormalizedKey(base) ==
    IF normalizeImageName(base) \in DOMAIN Images THEN normalizeImageName(base)
    ELSE IF /\ HasPrefix(normalizeImageName(base), <<"library", "/">>)
            /\ TrimPrefix(normalizeImageName(base), <<"library", "/">>) \in DOMAIN Images
         THEN TrimPrefix(normalizeImageName(base), <<"library", "/">>)
    ELSE EmptyStr

\* The keys ending in * whose text before the * starts the basename of base.
PatternKeys(base) ==
    {k \in DOMAIN Images :
        /\ HasSuffix(k, <<"*">>)
        /\ HasPrefix(filepathBase(base), Take(k, Len(k) - 1))}

\* The values the priority order of C22 allows for base: the value of the
\* highest kind of key that matches; the basename itself when none does.
PriorityValues(base) ==
    IF base \in DOMAIN Images THEN {Images[base]}
    ELSE IF filepathBase(base) \in DOMAIN Images THEN {Images[filepathBase(base)]}
    ELSE IF VariantKeys(base) # {}
         THEN {Images[generateDockerHubVariants(base)[
                   CHOOSE k \in VariantKeys(base) : \A m \in VariantKeys(base) : k <= m]]}
    ELSE IF NormalizedKey(base) # EmptyStr THEN {Images[NormalizedKey(base)]}
    ELSE IF PatternKeys(base) # {} THEN {Images[k] : k \in PatternKeys(base)}
    ELSE {filepathBase(base)}

\* How many kinds of key match base.
MatchingKinds(base) ==
    Cardinality({n \in 1..5 :
        \/ n = 1 /\ base \in DOMAIN Images
        \/ n = 2 /\ filepathBase(base) \in DOMAIN Images
        \/ n = 3 /\ VariantKeys(base) # {}
        \/ n = 4 /\ NormalizedKey(base) # EmptyStr
        \/ n = 5 /\ PatternKeys(base) # {}})

\* The rewritten FROM lines of the converted document.
RewrittenFroms ==
    {i \in Lines(converted) : converted[i].From.set /\ converted[i].Converted # EmptyStr}

\* C22: the image a rewritten FROM names is the value of the key of highest
\* priority that matches its base: the full reference, then the basename,
\* then a docker-hub variant, then the normalized form, then a pattern.
LookupPriority ==
    Converted =>
        \A i \in RewrittenFroms :
            NameOf(EmittedRef(converted[i]))
                \in {NameOf(v) : v \in PriorityValues(converted[i].From.Base)}

\* Convert rewrote three FROM lines, each matched by keys of two kinds: full
\* reference and basename, docker-hub variant and pattern, normalized form
\* and pattern.
LookupPriorityWitness ==
    /\ Converted
    /\ \E i, j, k \in RewrittenFroms :
          /\ MatchingKinds(converted[i].From.Base) > 1
          /\ converted[i].From.Base \in DOMAIN Images
          /\ MatchingKinds(converted[j].From.Base) > 1
          /\ VariantKeys(converted[j].From.Base) # {}
          /\ filepathBase(converted[j].From.Base) \notin DOMAIN Images
          /\ MatchingKinds(converted[k].From.Base) > 1
          /\ NormalizedKey(converted[k].From.Base) # EmptyStr
          /\ VariantKeys(converted[k].From.Base) = {}

\* name starts with the text of key k in front of its last character.
StartsWithStem(name, k) ==
    /\ Len(name) >= Len(k) - 1
    /\ SubSeq(name, 1, Len(k) - 1) = SubSeq(k, 1, Len(k) - 1)

\* No key of a kind in front of the patterns matches base.
OnlyPatterns(base) ==
    /\ base \notin DOMAIN Images
    /\ filepathBase(base) \notin DOMAIN Images
    /\ VariantKeys(base) = {}
    /\ NormalizedKey(base) = EmptyStr

\* The rewritten FROM lines whose basename is name.
RewrittenAs(name) ==
    {i \in RewrittenFroms : filepathBase(converted[i].From.Base) = name}

\* The pattern keys whose text in front of the * starts the basename of base.
StemKeys(base) ==
    {k \in GlobKeys(Images) : StartsWithStem(filepathBase(base), k)}

\* C27: a key ending in * matches a FROM exactly when the image basename
\* starts with the key without its *: where no key of another kind matches,
\* the rewritten FROM names the value of such a key when there is one and
\* keeps its own basename when there is none.
GlobMatchesPrefix ==
    Converted =>
        \A i \in RewrittenFroms :
            OnlyPatterns(converted[i].From.Base) =>
                IF StemKeys(converted[i].From.Base) = {}
                THEN NameOf(EmittedRef(converted[i])) = filepathBase(converted[i].From.Base)
                ELSE \E k \in StemKeys(converted[i].From.Base) :
                        NameOf(EmittedRef(converted[i])) = NameOf(Images[k])

\* Convert rewrote FROM nodejs, FROM nodejs20-debian12 and FROM my-nodejs
\* under a table with the key nodejs*.
GlobMatchesPrefixWitness ==
    /\ Converted
    /\ <<"nodejs", "*">> \in DOMAIN Images
    /\ RewrittenAs(<<"nodejs">>) # {}
    /\ RewrittenAs(<<"nodejs", "20", "-", "debian", "12">>) # {}
    /\ RewrittenAs(<<"my", "-", "nodejs">>) # {}
    /\ \A i \in RewrittenFroms : OnlyPatterns(converted[i].From.Base)

(***************************************************************************)
(* Custom hooks                                                            *)
(***************************************************************************)
\* The base-image hook of the options returns an error for from.
FromHookErrs(from) ==
    HookResult(opts.FromLineConverter, from, EmptyStr, FALSE).err

\* The FromDetails convertArgLine hands to the hook for a default value.
ArgFrom(default) ==
    [NilFrom EXCEPT !.set = TRUE, !.Base = parseImageReference(default).base,
                    !.Tag = parseImageReference(default).tag, !.Orig = default]

\* Line i of the document is a FROM the hook is asked about and refuses.
RefusedFrom(d, i) ==
    /\ d[i].From.set
    /\ shouldConvertFromLine(d[i].From)
    /\ FromHookErrs(d[i].From)

\* Line i of the document is an ARG the hook is asked about and refuses.
RefusedArg(d, i) ==
    /\ d[i].Arg.set
    /\ d[i].Arg.UsedAsBase
    /\ d[i].Arg.DefaultValue # EmptyStr
    /\ FromHookErrs(ArgFrom(d[i].Arg.DefaultValue))

\* What Convert returns for the document when the hook accepts every proposal.
WithoutError(d) ==
    Convert(d, [opts EXCEPT !.FromLineConverter = "keep"], defaults.mappings,
            [i \in 1..Len(d) |-> << >>]).output

\* C23: if the base-image hook returns an error for a FROM, Convert succeeds,
\* that FROM is emitted with its original image reference (and alias), and
\* every line the hook did not refuse is what Convert returns for it when the
\* hook accepts every proposal.
FromHookErrorIsLocal ==
    [][(pc = "printed" /\ opts.FromLineConverter \in {"fail", "picky"})
          => /\ pc' = "converted"
             /\ Len(converted') = Len(doc)
             /\ \A i \in 1..Len(doc) :
                   IF RefusedFrom(doc', i)
                   THEN converted'[i].Converted
                            = fromLineText(doc[i].From.Orig, doc[i].From.Alias)
                              \o (IF HasSuffix(WithoutError(doc)[i].Converted, UserRootSuffix)
                                  THEN UserRootSuffix ELSE EmptyStr)
                   ELSE RefusedArg(doc', i) \/ converted'[i] = WithoutError(doc)[i]]_vars

\* Convert returned a document in which one FROM was refused by the hook and
\* keeps its reference, another FROM was accepted and rewritten, and a RUN
\* was rewritten.
FromHookErrorIsLocalWitness ==
    /\ pc = "converted"
    /\ opts.FromLineConverter = "picky"
    /\ \E i, j, k \in Lines(converted) :
          /\ RefusedFrom(doc, i)
          /\ EmittedRef(converted[i]) = doc[i].From.Orig
          /\ converted[j].From.set /\ ~RefusedFrom(doc, j)
          /\ converted[j].Converted # EmptyStr
          /\ converted[k].Run.set /\ converted[k].Converted # EmptyStr

\* The options carry a run-command hook that returns an error.
FailingRunHook ==
    "RunLineConverter" \in DOMAIN opts /\ opts.RunLineConverter = "fail"

\* C24: if the run-command hook returns an error for a RUN instruction, the
\* whole Convert call fails with that error and returns no document.
RunHookErrorAborts ==
    [][(/\ pc = "printed"
        /\ FailingRunHook
        /\ opts.NoBuiltIn \/ ~defaults.err
        /\ \E i \in Lines(doc) : doc[i].Run.set)
          => pc' = "hookfailed" /\ converted' = converted /\ result' = result]_vars

\* Convert failed with the error of the run-command hook on a document with
\* a FROM and a RUN.
RunHookErrorAbortsWitness ==
    /\ pc = "hookfailed"
    /\ FailingRunHook
    /\ \E i, j \in Lines(doc) : doc[i].From.set /\ doc[j].Run.set
    /\ converted = << >>

(***************************************************************************)
(* Build arguments                                                         *)
(***************************************************************************)
\* A FROM after line i of the document names the variable as its base image.
UsedLater(d, i, name) ==
    \E j \in (i + 1)..Len(d) :
        /\ d[j].From.set
        /\ d[j].From.Base \in {<<"$">> \o name, <<"$", "{">> \o name \o <<"}">>}

\* C25: the default value of an ARG is rewritten as an image reference if and
\* only if the ARG has a non-empty default and a FROM later in the document
\* uses the variable, as $NAME or ${NAME}, as its base-image name.
ArgRewrittenIffUsedLater ==
    Converted =>
        \A i \in Lines(converted) :
            doc[i].Arg.set =>
                (converted[i].Converted # EmptyStr
                    <=> /\ doc[i].Arg.DefaultValue # EmptyStr
                        /\ UsedLater(doc, i, doc[i].Arg.Name))

(***************************************************************************)
(* Serialization of shell commands                                         *)
(***************************************************************************)
Blanks == {" ", "\t", "\n", Backslash}

\* The text in front of the first # outside quotes.
RECURSIVE Uncommented(_, _, _, _)
Uncommented(s, i, sq, dq) ==
    IF i > Len(s) THEN s
    ELSE IF s[i] = SQuote /\ ~dq THEN Uncommented(s, i + 1, ~sq, dq)
    ELSE IF s[i] = DQuote /\ ~sq THEN Uncommented(s, i + 1, sq, ~dq)
    ELSE IF s[i] = "#" /\ ~sq /\ ~dq THEN Take(s, i - 1)
    ELSE Uncommented(s, i + 1, sq, dq)

\* The text without the blanks and line continuations outside quotes.
RECURSIVE Squeeze(_, _, _, _, _)
Squeeze(s, i, sq, dq, acc) ==
    IF i > Len(s) THEN acc
    ELSE IF s[i] = SQuote /\ ~dq THEN Squeeze(s, i + 1, ~sq, dq, Append(acc, s[i]))
    ELSE IF s[i] = DQuote /\ ~sq THEN Squeeze(s, i + 1, sq, ~dq, Append(acc, s[i]))
    ELSE IF ~sq /\ ~dq /\ s[i] \in Blanks THEN Squeeze(s, i + 1, sq, dq, acc)
    ELSE Squeeze(s, i + 1, sq, dq, Append(acc, s[i]))

\* s holds two blanks in a row at a place where every quote, parenthesis,
\* backtick and subshell opened before them is closed again.
HasOpenRun(s) ==
    \E p \in 1..(Len(s) - 1) :
        /\ s[p] \in Blanks
        /\ s[p + 1] \in Blanks
        /\ Closed(Take(s, p - 1))

\* C26: serializing the ShellCommand parsed from a command text reproduces
\* the text up to normalization only: without its comment and apart from
\* blanks outside quotes the two texts are equal, and no part keeps a run of
\* blanks outside quotes and nested constructs.
SerializeNormalizes ==
    \A i \in Lines(doc) :
        (doc[i].Run.set /\ doc[i].Run.Before.set /\ Closed(CommandText(doc[i])))
            => /\ Squeeze(ShellString(doc[i].Run.Before), 1, FALSE, FALSE, EmptyStr)
                    = Squeeze(Uncommented(CommandText(doc[i]), 1, FALSE, FALSE),
                              1, FALSE, FALSE, EmptyStr)
               /\ \A k \in 1..Len(doc[i].Run.Before.Parts) :
                     ~HasOpenRun(PartString(doc[i].Run.Before.Parts[k]))

(***************************************************************************)
(* USER root in front of rewritten RUN instructions                        *)
(***************************************************************************)
\* The emitted text of the line holds a USER directive naming root.
EmitsUserRoot(line) ==
    IF line.Converted # EmptyStr
    THEN isUserRoot(line.Converted) \/ HasSuffix(line.Converted, UserRootSuffix)
    ELSE isUserRoot(line.Raw)

\* C28: in the converted document every rewritten RUN instruction of a build
\* stage is preceded, within that stage, by a USER root directive.
UserRootBeforeRun ==
    Converted =>
        \A i \in Lines(converted) :
            (converted[i].Run.set /\ converted[i].Converted # EmptyStr
                /\ converted[i].Stage > 0)
                => \E j \in 1..(i - 1) :
                      /\ converted[j].Stage = converted[i].Stage
                      /\ EmitsUserRoot(converted[j])

\* The position in parts of the n-th part that neither invokes the manager
\* mgr nor is the emitted apk part.
NthOther(parts, mgr, n) ==
    CHOOSE k \in 1..Len(parts) :
        /\ parts[k].Command # mgr /\ parts[k].Command # <<"apk">>
        /\ Len(OthersOf(SubSeq(parts, 1, k), mgr)) = n

\* The RUN lines from whose command Convert removed package-manager parts.
ManagerRewrites ==
    {i \in RewrittenRuns :
        \E k \in 1..Len(converted[i].Run.Before.Parts) :
            converted[i].Run.Before.Parts[k].Command = converted[i].Run.Manager}

\* The n-th retained part of the rewritten command follows the operator it
\* followed in the original command.
SameJoin(run, n) ==
    NthOther(run.Before.Parts, run.Manager, n) > 1
        => /\ NthOther(run.After.Parts, run.Manager, n) > 1
           /\ run.After.Parts[NthOther(run.After.Parts, run.Manager, n) - 1].Delimiter
                = run.Before.Parts[NthOther(run.Before.Parts, run.Manager, n) - 1].Delimiter

\* C29: when package-manager parts are removed from a RUN command, each
\* retained part is joined to the part before it by the same control operator
\* as in the original command.
RetainedPartsJoinedAsBefore ==
    \A i \in ManagerRewrites :
        \A n \in 1..Len(OthersOf(converted[i].Run.After.Parts, converted[i].Run.Manager)) :
            SameJoin(converted[i].Run, n)

(***************************************************************************)
(* The -dev suffix along chains of stages                                  *)
(***************************************************************************)
\* The line of the FROM that opens stage s.
FromOf(d, s) == CHOOSE i \in Lines(d) : d[i].From.set /\ d[i].Stage = s

\* Stage s is based on an earlier stage.
BasedOnEarlier(d, s) == d[FromOf(d, s)].From.Parent \in 1..(s - 1)

\* The stage at the root of the chain of parents of stage s.
RECURSIVE RootOf(_, _)
RootOf(d, s) ==
    IF BasedOnEarlier(d, s) THEN RootOf(d, d[FromOf(d, s)].From.Parent) ELSE s

\* Stage s holds a RUN instruction.
StageHasRun(d, s) == \E i \in Lines(d) : d[i].Stage = s /\ d[i].Run.set

\* The stages with a RUN instruction that are based on an earlier stage whose
\* chain of parents ends in a rewritten external image with a static tag.
RunStagesOnImage ==
    {s \in Stages(converted) \ {0} :
        /\ StageHasRun(converted, s)
        /\ BasedOnEarlier(converted, s)
        /\ StaticRewrite(converted[FromOf(converted, RootOf(converted, s))])}

====
